---- MODULE Spec2Model ----
(***************************************************************************)
(* A model of tstat (uoclass/tstat): the Organization entity registry      *)
(* (organization.py), the record normaliser (report.py) and the ticket     *)
(* filter (organization.py).                                               *)
(*                                                                         *)
(* Python objects live in an arena: `heap` holds, per class, the sequence  *)
(* of the objects constructed so far, and a reference to an object is its  *)
(* index in that sequence, so reference equality is equality of indices.   *)
(* A Python dict is the sequence of its [key, val] items in insertion      *)
(* order.  A Python str is the sequence of its characters.                 *)
(***************************************************************************)
EXTENDS Integers, Sequences, FiniteSets, TLC

VARIABLES org, heap, last, report, file

vars == <<org, heap, last, report, file>>

----------------------------------------------------------------------------
(* Python values *)

\* None where a str is expected (no str holds the character "None")
None == <<"None">>

\* None where an object reference is expected
Null == 0

\* the literal "Undefined"
Undefined == <<"U", "n", "d", "e", "f", "i", "n", "e", "d">>

\* truth value of a str-or-None: None and "" are false
Truthy(s) == s # None /\ s # <<>>

\* x if x else "Undefined"
OrUndefined(s) == IF Truthy(s) THEN s ELSE Undefined

\* None where an int or a datetime is expected
Nil == 0 - 1

\* in place of an int or a datetime: the call raised ValueError
Throws == 0 - 2

Digits == {"0", "1", "2", "3", "4", "5", "6", "7", "8", "9"}

DigitValue(c) ==
    CASE c = "0" -> 0 [] c = "1" -> 1 [] c = "2" -> 2 [] c = "3" -> 3 [] c = "4" -> 4
      [] c = "5" -> 5 [] c = "6" -> 6 [] c = "7" -> 7 [] c = "8" -> 8 [] c = "9" -> 9

\* the value of a run of decimal digits
RECURSIVE Decimal(_)
Decimal(s) ==
    IF s = <<>> THEN 0
    ELSE 10 * Decimal(SubSeq(s, 1, Len(s) - 1)) + DigitValue(s[Len(s)])

\* int(s) of a str: a run of decimal digits, anything else raises ValueError
int(s) ==
    IF s # <<>> /\ \A i \in 1..Len(s) : s[i] \in Digits THEN Decimal(s) ELSE Throws

Upper == {"A", "B", "C", "D", "E", "H", "I", "M", "P", "T"}

Lower == {"a", "b", "c", "d", "e", "h", "i", "m", "p", "t"}

\* char.isalpha()
isalpha(c) == c \in Upper \cup Lower

\* char.lower()
lower(c) ==
    CASE c = "A" -> "a" [] c = "B" -> "b" [] c = "C" -> "c" [] c = "D" -> "d"
      [] c = "E" -> "e" [] c = "H" -> "h" [] c = "I" -> "i" [] c = "M" -> "m"
      [] c = "P" -> "p" [] c = "T" -> "t" [] OTHER -> c

\* "".join(char.lower() for char in s if char.isalpha())
RECURSIVE canonical(_)
canonical(s) ==
    IF s = <<>> THEN <<>>
    ELSE IF isalpha(Head(s)) THEN <<lower(Head(s))>> \o canonical(Tail(s))
         ELSE canonical(Tail(s))

\* s.strip()
RECURSIVE lstrip(_)
lstrip(s) == IF s # <<>> /\ Head(s) = " " THEN lstrip(Tail(s)) ELSE s

RECURSIVE rstrip(_)
rstrip(s) ==
    IF s # <<>> /\ s[Len(s)] = " " THEN rstrip(SubSeq(s, 1, Len(s) - 1)) ELSE s

strip(s) == rstrip(lstrip(s))

\* s.split(sep): the pieces of s between the occurrences of sep
RECURSIVE split(_, _)
split(s, sep) ==
    IF \E i \in 1..Len(s) : s[i] = sep
    THEN LET i == CHOOSE i \in 1..Len(s) :
                      s[i] = sep /\ \A j \in 1..(i - 1) : s[j] # sep
         IN  <<SubSeq(s, 1, i - 1)>> \o split(SubSeq(s, i + 1, Len(s)), sep)
    ELSE <<s>>

----------------------------------------------------------------------------
(* datetime: the minutes since the start of day 0 of the proleptic Gregorian
   calendar (day 1 is 0001-01-01, a Monday) *)

IsLeap(y) == (y % 4 = 0 /\ y % 100 # 0) \/ y % 400 = 0

DaysInMonth(y, m) ==
    IF m \in {1, 3, 5, 7, 8, 10, 12} THEN 31
    ELSE IF m \in {4, 6, 9, 11} THEN 30
    ELSE IF IsLeap(y) THEN 29 ELSE 28

RECURSIVE DaysBeforeMonth(_, _)
DaysBeforeMonth(y, m) ==
    IF m = 1 THEN 0 ELSE DaysBeforeMonth(y, m - 1) + DaysInMonth(y, m - 1)

\* date.toordinal()
Ordinal(y, m, d) ==
    (y - 1) * 365 + (y - 1) \div 4 - (y - 1) \div 100 + (y - 1) \div 400
        + DaysBeforeMonth(y, m) + d

datetime(y, m, d, H, M) == Ordinal(y, m, d) * (24 * 60) + H * 60 + M

timedelta(days) == days * (24 * 60)

\* datetime.weekday(date): Monday is 0
weekday(date) == ((date \div (24 * 60)) + 6) % 7

\* datetime.combine(date, time(0, 0))
midnight(date) == (date \div (24 * 60)) * (24 * 60)

\* the run of digits at the head of s
RECURSIVE DigitRun(_)
DigitRun(s) ==
    IF s # <<>> /\ Head(s) \in Digits THEN <<Head(s)>> \o DigitRun(Tail(s)) ELSE <<>>

\* the digits a directive accepts and the range of their value
Accepts(directive, run) ==
    LET n == Decimal(run) IN
    CASE directive = "%Y" -> Len(run) = 4
      [] directive = "%y" -> Len(run) = 2
      [] directive = "%m" -> Len(run) \in {1, 2} /\ n \in 1..12
      [] directive = "%d" -> Len(run) \in {1, 2} /\ n \in 1..31
      [] directive = "%H" -> Len(run) \in {1, 2} /\ n \in 0..23
      [] directive = "%I" -> Len(run) \in {1, 2} /\ n \in 1..12
      [] directive = "%M" -> Len(run) \in {1, 2} /\ n \in 0..59

\* the fields strptime reads from text under format, with ok false if text
\* does not match: format is a sequence of directives and literal characters
RECURSIVE Scan(_, _, _)
Scan(text, format, found) ==
    IF format = <<>>
    THEN [found EXCEPT !.ok = (text = <<>>)]
    ELSE LET f == Head(format)
             mismatch == [found EXCEPT !.ok = FALSE]
         IN
         IF f = "%p"
         THEN IF Len(text) >= 2 /\ lower(text[1]) \in {"a", "p"} /\ lower(text[2]) = "m"
              THEN Scan(SubSeq(text, 3, Len(text)), Tail(format),
                        [found EXCEPT !.pm = (lower(text[1]) = "p")])
              ELSE mismatch
         ELSE IF f \in {"%Y", "%y", "%m", "%d", "%H", "%I", "%M"}
         THEN LET run == DigitRun(text) IN
              IF Accepts(f, run)
              THEN Scan(SubSeq(text, Len(run) + 1, Len(text)), Tail(format),
                        [found EXCEPT !.n[f] = Decimal(run)])
              ELSE mismatch
         ELSE IF f = " "
         THEN IF text # <<>> /\ Head(text) = " "
              THEN Scan(lstrip(text), Tail(format), found)
              ELSE mismatch
         ELSE IF text # <<>> /\ Head(text) = f
              THEN Scan(Tail(text), Tail(format), found)
              ELSE mismatch

\* datetime.strptime(text, format)
strptime(text, format) ==
    LET got == Scan(text, format,
                    [ok |-> TRUE, pm |-> FALSE,
                     n |-> [x \in {"%Y", "%y", "%m", "%d", "%H", "%I", "%M"} |-> Nil]])
        n == got.n
        year == IF n["%Y"] # Nil THEN n["%Y"]
                ELSE IF n["%y"] # Nil
                     THEN IF n["%y"] < 69 THEN 2000 + n["%y"] ELSE 1900 + n["%y"]
                     ELSE 1900
        month == IF n["%m"] # Nil THEN n["%m"] ELSE 1
        day == IF n["%d"] # Nil THEN n["%d"] ELSE 1
        hour == IF n["%I"] # Nil THEN (n["%I"] % 12) + (IF got.pm THEN 12 ELSE 0)
                ELSE IF n["%H"] # Nil THEN n["%H"] ELSE 0
        minute == IF n["%M"] # Nil THEN n["%M"] ELSE 0
    IN  IF ~got.ok \/ year < 1 \/ day > DaysInMonth(year, month) THEN Throws
        ELSE datetime(year, month, day, hour, minute)

----------------------------------------------------------------------------
(* dict *)

DictHas(d, k) == \E i \in 1..Len(d) : d[i].key = k

\* d.get(k), with `dflt` the falsy value read when k is absent
DictGet(d, k, dflt) ==
    IF DictHas(d, k) THEN d[CHOOSE i \in 1..Len(d) : d[i].key = k].val ELSE dflt

\* d[k] = v: an existing key keeps its position
DictSet(d, k, v) ==
    IF DictHas(d, k)
    THEN [i \in 1..Len(d) |-> IF d[i].key = k THEN [key |-> k, val |-> v] ELSE d[i]]
    ELSE Append(d, [key |-> k, val |-> v])

DictKeys(d) == [i \in 1..Len(d) |-> d[i].key]

DictValues(d) == [i \in 1..Len(d) |-> d[i].val]

----------------------------------------------------------------------------
(* ticketclasses.py *)

Building(name) == [name |-> name, rooms |-> <<>>]

Room(building, identifier) ==
    [building |-> building, identifier |-> identifier, tickets |-> <<>>]

User(email, name, phone) ==
    [email |-> email, name |-> name, phone |-> phone, tickets |-> <<>>]

Group(name) == [name |-> name, tickets |-> <<>>]

Department(name) == [name |-> name, tickets |-> <<>>]

\* Ticket.__init__
Ticket ==
    [id |-> Nil, title |-> None, responsible_group |-> Null, requestor |-> Null,
     department |-> Null, room |-> Null, created |-> Nil, modified |-> Nil,
     diagnoses |-> <<>>, status |-> None]

----------------------------------------------------------------------------
(* organization.py: Organization *)

\* Organization.__init__
EmptyOrg ==
    [buildings |-> <<>>, users |-> <<>>, departments |-> <<>>,
     groups |-> <<>>, tickets |-> <<>>]

EmptyHeap ==
    [Building |-> <<>>, Room |-> <<>>, User |-> <<>>, Group |-> <<>>,
     Department |-> <<>>, Ticket |-> <<>>]

\* what a method leaves behind: the organization, the arena, the value returned
Result(o, h, ret) == [org |-> o, heap |-> h, ret |-> ret]

\* in place of a returned value when the call raised; exc names the exception
Raise(o, h, exc) == [org |-> o, heap |-> h, ret |-> Null, exc |-> exc]

Return(o, h, ret) == [org |-> o, heap |-> h, ret |-> ret, exc |-> ""]

\* Organization.add_new_ticket of the Ticket object `ticket`; created and
\* modified are datetimes or None here, never a str
add_new_ticket(o, h, ticket) ==
    LET t == h.Ticket[ticket] IN
    IF t.id = Nil
    THEN Raise(o, h, "ValueError")
    ELSE LET o1 == [o EXCEPT !.tickets = DictSet(@, t.id, ticket)]
             h1 == [h EXCEPT !.Room[t.room].tickets = Append(@, ticket)]
             h2 == [h1 EXCEPT !.User[t.requestor].tickets = Append(@, ticket)]
             h3 == [h2 EXCEPT !.Group[t.responsible_group].tickets = Append(@, ticket)]
             h4 == [h3 EXCEPT !.Department[t.department].tickets = Append(@, ticket)]
         IN  Return(o1, h4, Null)

\* find_group that registers a blank name as it is given
find_group_keeps_blank(o, h, name_in, create_mode) ==
    IF DictGet(o.groups, name_in, Null) # Null
    THEN Result(o, h, DictGet(o.groups, name_in, Null))
    ELSE IF create_mode
         THEN LET h1 == [h EXCEPT !.Group = Append(@, Group(name_in))]
                  o1 == [o EXCEPT !.groups = DictSet(@, name_in, Len(h1.Group))]
              IN  Result(o1, h1, DictGet(o1.groups, name_in, Null))
         ELSE Result(o, h, Null)

find_group(o, h, name_in, create_mode) ==
    LET name == OrUndefined(name_in) IN
    IF DictGet(o.groups, name, Null) # Null
    THEN Result(o, h, DictGet(o.groups, name, Null))
    ELSE IF create_mode
         THEN LET h1 == [h EXCEPT !.Group = Append(@, Group(name))]
                  o1 == [o EXCEPT !.groups = DictSet(@, name, Len(h1.Group))]
              IN  Result(o1, h1, DictGet(o1.groups, name, Null))
         ELSE Result(o, h, Null)

\* find_department that constructs a new Department on every create_mode call
find_department_always_new(o, h, name_in, create_mode) ==
    LET name == OrUndefined(name_in) IN
    IF create_mode
    THEN LET h1 == [h EXCEPT !.Department = Append(@, Department(name))]
             o1 == [o EXCEPT !.departments = DictSet(@, name, Len(h1.Department))]
         IN  Result(o1, h1, DictGet(o1.departments, name, Null))
    ELSE Result(o, h, DictGet(o.departments, name, Null))

find_department(o, h, name_in, create_mode) ==
    LET name == OrUndefined(name_in) IN
    IF DictGet(o.departments, name, Null) # Null
    THEN Result(o, h, DictGet(o.departments, name, Null))
    ELSE IF create_mode
         THEN LET h1 == [h EXCEPT !.Department = Append(@, Department(name))]
                  o1 == [o EXCEPT !.departments = DictSet(@, name, Len(h1.Department))]
              IN  Result(o1, h1, DictGet(o1.departments, name, Null))
         ELSE Result(o, h, Null)

\* find_building that keeps one building for every name
find_building_one_for_all(o, h, name_in, create_mode) ==
    IF o.buildings # <<>>
    THEN Result(o, h, o.buildings[1].val)
    ELSE IF create_mode
         THEN LET name == OrUndefined(name_in)
                  h1 == [h EXCEPT !.Building = Append(@, Building(name))]
                  o1 == [o EXCEPT !.buildings = DictSet(@, name, Len(h1.Building))]
              IN  Result(o1, h1, DictGet(o1.buildings, name, Null))
         ELSE Result(o, h, Null)

find_building(o, h, name_in, create_mode) ==
    LET name == OrUndefined(name_in) IN
    IF DictGet(o.buildings, name, Null) # Null
    THEN Result(o, h, DictGet(o.buildings, name, Null))
    ELSE IF create_mode
         THEN LET h1 == [h EXCEPT !.Building = Append(@, Building(name))]
                  o1 == [o EXCEPT !.buildings = DictSet(@, name, Len(h1.Building))]
              IN  Result(o1, h1, DictGet(o1.buildings, name, Null))
         ELSE Result(o, h, Null)

\* find_room that resolves the building in create mode whatever its own mode is
find_room_makes_building(o, h, building_name_in, room_identifier_in, create_mode) ==
    LET building_name == OrUndefined(building_name_in)
        room_identifier == OrUndefined(room_identifier_in)
        fb == find_building(o, h, building_name, TRUE)
        building == fb.ret
    IN  IF DictGet(fb.heap.Building[building].rooms, room_identifier, Null) # Null
        THEN Result(fb.org, fb.heap,
                    DictGet(fb.heap.Building[building].rooms, room_identifier, Null))
        ELSE IF create_mode
             THEN LET h1 == [fb.heap EXCEPT
                               !.Room = Append(@, Room(building, room_identifier))]
                      h2 == [h1 EXCEPT !.Building[building].rooms =
                               DictSet(@, room_identifier, Len(h1.Room))]
                  IN  Result(fb.org, h2,
                             DictGet(h2.Building[building].rooms, room_identifier, Null))
             ELSE Result(fb.org, fb.heap, Null)

find_room(o, h, building_name_in, room_identifier_in, create_mode) ==
    LET building_name == OrUndefined(building_name_in)
        room_identifier == OrUndefined(room_identifier_in)
        fb == find_building(o, h, building_name, create_mode)
        building == fb.ret
    IN  IF building # Null
        THEN IF DictGet(fb.heap.Building[building].rooms, room_identifier, Null) # Null
             THEN Result(fb.org, fb.heap,
                         DictGet(fb.heap.Building[building].rooms, room_identifier, Null))
             ELSE IF create_mode
                  THEN LET h1 == [fb.heap EXCEPT
                                    !.Room = Append(@, Room(building, room_identifier))]
                           h2 == [h1 EXCEPT !.Building[building].rooms =
                                    DictSet(@, room_identifier, Len(h1.Room))]
                       IN  Result(fb.org, h2,
                                  DictGet(h2.Building[building].rooms, room_identifier, Null))
                  ELSE Result(fb.org, fb.heap, Null)
        ELSE Result(fb.org, fb.heap, Null)

\* the users of every email bucket, buckets in insertion order
RECURSIVE Flatten(_)
Flatten(lists) ==
    IF lists = <<>> THEN <<>> ELSE Head(lists) \o Flatten(Tail(lists))

\* find_user: (not name or name == found.name) and (not phone or phone == found.phone)
NamePhoneMatch(h, found, name, phone) ==
    /\ (~Truthy(name) \/ name = h.User[found].name)
    /\ (~Truthy(phone) \/ phone = h.User[found].phone)

\* email_lookup that matches the name and forgets the phone
email_lookup_no_phone(o, h, email, name, phone) ==
    IF DictGet(o.users, email, <<>>) = <<>>
    THEN <<>>
    ELSE IF ~(Truthy(name) \/ Truthy(phone))
         THEN DictGet(o.users, email, <<>>)
         ELSE SelectSeq(DictGet(o.users, email, <<>>),
                        LAMBDA found : NamePhoneMatch(h, found, name, None))

email_lookup(o, h, email, name, phone) ==
    IF DictGet(o.users, email, <<>>) = <<>>
    THEN <<>>
    ELSE IF ~(Truthy(name) \/ Truthy(phone))
         THEN DictGet(o.users, email, <<>>)
         ELSE SelectSeq(DictGet(o.users, email, <<>>),
                        LAMBDA found : NamePhoneMatch(h, found, name, phone))

name_phone_lookup(o, h, name, phone) ==
    SelectSeq(Flatten(DictValues(o.users)),
              LAMBDA found : NamePhoneMatch(h, found, name, phone))

find_user(o, h, email, name, phone, create_mode) ==
    IF ~(Truthy(email) \/ Truthy(name) \/ Truthy(phone) \/ create_mode)
    THEN Result(o, h, <<>>)
    ELSE
    LET lookup_results ==
            IF Truthy(email) THEN email_lookup(o, h, email, name, phone)
            ELSE IF Truthy(name) \/ Truthy(phone) THEN name_phone_lookup(o, h, name, phone)
            ELSE <<>>
    IN  IF lookup_results # <<>>
        THEN Result(o, h, lookup_results)
        ELSE IF create_mode
             THEN LET user_email == OrUndefined(email)
                      user_name == OrUndefined(name)
                      user_phone == OrUndefined(phone)
                      h1 == [h EXCEPT !.User = Append(@, User(user_email, user_name, user_phone))]
                      new_user == Len(h1.User)
                      o1 == [o EXCEPT !.users =
                               DictSet(@, user_email,
                                       Append(DictGet(o.users, user_email, <<>>), new_user))]
                  IN  Result(o1, h1, <<new_user>>)
             ELSE Result(o, h, <<>>)

----------------------------------------------------------------------------
(* report.py *)

\* the keys of STANDARD_FIELDS, in the order of the dict
Attributes ==
    <<"id", "title", "responsible_group", "requestor_name", "requestor_email",
      "requestor_phone", "department", "building", "room_identifier", "diagnoses",
      "diagnoses_note", "created", "modified", "status">>

STANDARD_FIELDS(attribute) ==
    CASE attribute = "id" -> <<"ID">>
      [] attribute = "title" -> <<"Title">>
      [] attribute = "responsible_group" -> <<"Resp Group">>
      [] attribute = "requestor_name" -> <<"Requestor">>
      [] attribute = "requestor_email" -> <<"Requestor Email">>
      [] attribute = "requestor_phone" -> <<"Requestor Phone">>
      [] attribute = "department" -> <<"Acct/Dept">>
      [] attribute = "building" -> <<"Location", "Class Support Building">>
      [] attribute = "room_identifier" -> <<"Location Room", "Room number">>
      [] attribute = "diagnoses" -> <<"Classroom Problem Types">>
      [] attribute = "diagnoses_note" -> <<"Classroom Support Other">>
      [] attribute = "created" -> <<"Created">>
      [] attribute = "modified" -> <<"Modified">>
      [] attribute = "status" -> <<"Status">>

\* csv_ticket.get(column_name): a record of the report maps the columns of
\* the report to their str
Get(csv_ticket, column_name) ==
    IF column_name \in DOMAIN csv_ticket THEN csv_ticket[column_name] ELSE None

Date(format) ==
    CASE format = 1 -> <<"%Y", "-", "%m", "-", "%d">>
      [] format = 2 -> <<"%m", "/", "%d", "/", "%Y">>
      [] format = 3 -> <<"%m", "/", "%d", "/", "%y">>
      [] format = 4 -> <<"%d", ".", "%m", ".", "%Y">>
      [] format = 5 -> <<"%d", ".", "%m", ".", "%y">>

TIME_FORMATS ==
    [i \in 1..10 |->
        IF i <= 5 THEN Date(i) \o <<" ", "%H", ":", "%M">>
        ELSE Date(i - 5) \o <<" ", "%I", ":", "%M", " ", "%p">>]

\* dict_to_ticket.get_attribute: the first column of the attribute that holds
\* a value
RECURSIVE FirstValue(_, _)
FirstValue(csv_ticket, columns) ==
    IF columns = <<>> THEN None
    ELSE IF Truthy(Get(csv_ticket, Head(columns))) THEN csv_ticket[Head(columns)]
         ELSE FirstValue(csv_ticket, Tail(columns))

\* get_attribute that tries the oldest column name first
get_attribute_oldest_first(csv_ticket, attribute_name) ==
    FirstValue(csv_ticket,
               [i \in 1..Len(STANDARD_FIELDS(attribute_name)) |->
                   STANDARD_FIELDS(attribute_name)[Len(STANDARD_FIELDS(attribute_name)) + 1 - i]])

get_attribute(csv_ticket, attribute_name) ==
    FirstValue(csv_ticket, STANDARD_FIELDS(attribute_name))

\* dict_to_ticket.gen_diagnoses; aliases is the mapping of the aliases file,
\* None when the report has no aliases file
gen_diagnoses(aliases, csv_ticket) ==
    LET diagnoses_field == get_attribute(csv_ticket, "diagnoses") IN
    IF ~Truthy(diagnoses_field) THEN <<>>
    ELSE LET pieces == split(diagnoses_field, ",")
             diagnoses_list == [i \in 1..Len(pieces) |-> strip(pieces[i])]
         IN  IF aliases = None THEN diagnoses_list
             ELSE [i \in 1..Len(diagnoses_list) |->
                     IF Truthy(DictGet(aliases, canonical(diagnoses_list[i]), None))
                     THEN DictGet(aliases, canonical(diagnoses_list[i]), None)
                     ELSE diagnoses_list[i]]

\* a Ticket under construction: the Organization as the calls made so far
\* have left it, the Ticket with the attributes set so far, and the exception
\* that has ended the construction
Draft(o, h) == [org |-> o, heap |-> h, ticket |-> Ticket, exc |-> ""]

\* ticket.field = r.ret of the call that returned r
Assigned(t, field, r) ==
    [org |-> r.org, heap |-> r.heap,
     ticket |-> [t.ticket EXCEPT ![field] = r.ret],
     exc |-> IF t.exc = "" /\ "exc" \in DOMAIN r THEN r.exc ELSE t.exc]

\* ticket.field = value, unless computing the value raises exc
Store(t, field, value, exc) ==
    IF t.exc # "" THEN t
    ELSE IF exc # "" THEN [t EXCEPT !.exc = exc]
    ELSE [t EXCEPT !.ticket[field] = value]

\* ticket.field = the number a parser returned, unless the parser raised
Parsed(t, field, number) ==
    Store(t, field, number, IF number = Throws THEN "ValueError" ELSE "")

\* requestor_lookup[0] of a requestor_lookup that holds one User
requestor_found(r) ==
    IF Len(r.ret) = 1 THEN Return(r.org, r.heap, r.ret[1])
    ELSE Raise(r.org, r.heap, "ValueError")

\* the three arguments dict_to_ticket passes to find_user
requestor_email(csv_ticket) == OrUndefined(get_attribute(csv_ticket, "requestor_email"))

requestor_name(csv_ticket) == OrUndefined(get_attribute(csv_ticket, "requestor_name"))

requestor_phone(csv_ticket) ==
    IF Truthy(get_attribute(csv_ticket, "requestor_email"))
    THEN get_attribute(csv_ticket, "requestor_phone")
    ELSE Undefined

\* ticket.responsible_group = org.find_group(name, create_mode=True)
with_group(t, name) ==
    Assigned(t, "responsible_group", find_group(t.org, t.heap, name, TRUE))

\* ticket.department = org.find_department(name, create_mode=True)
with_department(t, name) ==
    Assigned(t, "department", find_department(t.org, t.heap, name, TRUE))

\* ticket.room = org.find_room(building_name, room_identifier, create_mode=True)
with_room(t, building_name, room_identifier) ==
    Assigned(t, "room", find_room(t.org, t.heap, building_name, room_identifier, TRUE))

\* ticket.requestor = org.find_user(email, name, phone, create_mode=True)[0]
with_requestor(t, email, name, phone) ==
    Assigned(t, "requestor",
             requestor_found(find_user(t.org, t.heap, email, name, phone, TRUE)))

\* the four entities of the new Ticket, in the order dict_to_ticket finds them
with_entities(o, h, csv_ticket) ==
    with_requestor(
      with_room(
        with_department(
          with_group(Draft(o, h), get_attribute(csv_ticket, "responsible_group")),
          get_attribute(csv_ticket, "department")),
        get_attribute(csv_ticket, "building"),
        get_attribute(csv_ticket, "room_identifier")),
      requestor_email(csv_ticket), requestor_name(csv_ticket),
      requestor_phone(csv_ticket))

\* int(id_attribute) if id_attribute else 0
with_id(t, id_attribute) ==
    IF ~Truthy(id_attribute) THEN Store(t, "id", 0, "")
    ELSE Parsed(t, "id", int(id_attribute))

\* datetime.strptime(text, time_format) if text else None; strptime raises
\* TypeError when a report without dates has left time_format None
with_time(t, field, text, time_format) ==
    IF ~Truthy(text) THEN Store(t, field, Nil, "")
    ELSE IF time_format = None THEN Store(t, field, Nil, "TypeError")
    ELSE Parsed(t, field, strptime(text, time_format))

\* the Ticket of the draft joins the arena and is returned
created_ticket(t) ==
    IF t.exc # "" THEN Raise(t.org, t.heap, t.exc)
    ELSE Return(t.org, [t.heap EXCEPT !.Ticket = Append(@, t.ticket)],
                Len(t.heap.Ticket) + 1)

\* Report.dict_to_ticket: the new Ticket is the last object of the arena
dict_to_ticket(o, h, rep, csv_ticket) ==
    created_ticket(
      Store(
        Store(
          with_time(
            with_time(
              with_id(
                Store(with_entities(o, h, csv_ticket),
                      "title", get_attribute(csv_ticket, "title"), ""),
                get_attribute(csv_ticket, "id")),
              "created", get_attribute(csv_ticket, "created"), rep.time_format),
            "modified", get_attribute(csv_ticket, "modified"), rep.time_format),
          "diagnoses", gen_diagnoses(rep.aliases, csv_ticket), ""),
        "status", get_attribute(csv_ticket, "status"), ""))

\* get_fields_present; exits when the record has no ID column
RECURSIVE PresentIn(_, _, _)
PresentIn(csv_ticket, attribute, columns) ==
    IF columns = <<>> THEN <<>>
    ELSE (IF Get(csv_ticket, Head(columns)) # None THEN <<attribute>> ELSE <<>>)
         \o PresentIn(csv_ticket, attribute, Tail(columns))

get_fields_present(csv_ticket) ==
    Flatten([i \in 1..Len(Attributes) |->
                PresentIn(csv_ticket, Attributes[i], STANDARD_FIELDS(Attributes[i]))])

\* the (legacy name, new name) pairs get_fields_present warns of
legacy_fields(csv_ticket) ==
    Flatten([i \in 1..Len(Attributes) |->
                LET columns == STANDARD_FIELDS(Attributes[i]) IN
                SelectSeq([j \in 1..Len(columns) |-> <<columns[j], columns[1]>>],
                          LAMBDA pair : Get(csv_ticket, pair[1]) # None /\ pair[1] # pair[2])])

\* get_time_format that examines Modified before Created
get_time_format_modified_first(csv_ticket) ==
    LET time_text == IF Truthy(Get(csv_ticket, "Modified")) THEN csv_ticket["Modified"]
                     ELSE Get(csv_ticket, "Created")
        fits == {i \in 1..Len(TIME_FORMATS) : strptime(time_text, TIME_FORMATS[i]) # Throws}
    IN  IF ~Truthy(time_text) THEN [format |-> None, exc |-> ""]
        ELSE IF fits = {} THEN [format |-> None, exc |-> "BadReportError"]
        ELSE [format |-> TIME_FORMATS[CHOOSE i \in fits : \A j \in fits : i <= j],
              exc |-> ""]

\* get_time_format: the first of TIME_FORMATS the time text parses under
get_time_format(csv_ticket) ==
    LET time_text == IF Truthy(Get(csv_ticket, "Created")) THEN csv_ticket["Created"]
                     ELSE Get(csv_ticket, "Modified")
        fits == {i \in 1..Len(TIME_FORMATS) : strptime(time_text, TIME_FORMATS[i]) # Throws}
    IN  IF ~Truthy(time_text) THEN [format |-> None, exc |-> ""]
        ELSE IF fits = {} THEN [format |-> None, exc |-> "BadReportError"]
        ELSE [format |-> TIME_FORMATS[CHOOSE i \in fits : \A j \in fits : i <= j],
              exc |-> ""]

\* no Report yet
NoReport ==
    [state |-> "none", fields_present |-> <<>>, time_format |-> None,
     aliases |-> None, sample |-> None]

\* Report.__init__ when get_fields_present goes on without "id"
Constructed_without_id(csv_ticket, aliases, fields_present, time_format) ==
    IF time_format.exc # ""
    THEN [NoReport EXCEPT !.state = time_format.exc]
    ELSE [state |-> "constructed", fields_present |-> fields_present,
          time_format |-> time_format.format, aliases |-> aliases,
          sample |-> csv_ticket]

\* the Report __init__ leaves, given what the two helpers return
Constructed(csv_ticket, aliases, fields_present, time_format) ==
    IF \A i \in 1..Len(fields_present) : fields_present[i] # "id"
    THEN [NoReport EXCEPT !.state = "SystemExit"]
    ELSE IF time_format.exc # ""
    THEN [NoReport EXCEPT !.state = time_format.exc]
    ELSE [state |-> "constructed", fields_present |-> fields_present,
          time_format |-> time_format.format, aliases |-> aliases,
          sample |-> csv_ticket]

\* Report.__init__ on a file whose first record is csv_ticket
Report(csv_ticket, aliases) ==
    Constructed(csv_ticket, aliases, get_fields_present(csv_ticket),
                get_time_format(csv_ticket))

----------------------------------------------------------------------------
(* The registry: any sequence of find_* calls on one Organization *)

\* the arena holds at most this many entities
MaxEntities == 3

\* at most this many rooms, when only buildings and rooms are looked up
MaxRooms == 2

\* at most this many users, when only users are looked up
MaxUsers == 3

Entities(h) ==
    Len(h.Building) + Len(h.Room) + Len(h.User) + Len(h.Group) + Len(h.Department)

\* the arena h is within the bound of the specification: "entities" for
\* every registry, "rooms" for buildings and rooms, "users" for users
Within(cap, h) ==
    CASE cap = "entities" -> Entities(h) <= MaxEntities
      [] cap = "rooms" -> Len(h.Room) <= MaxRooms
      [] cap = "users" -> Len(h.User) <= MaxUsers

\* arguments of the find_* calls: omitted/None, blank, the default, a name
Names == {None, <<>>, Undefined, <<"A">>}

\* arguments of find_user: omitted/None, blank, a value
Fields == {None, <<>>, <<"a">>}

Called(op, create_mode, r, within) ==
    /\ within
    /\ org' = r.org
    /\ heap' = r.heap
    /\ last' = [op |-> op, create_mode |-> create_mode, ret |-> r.ret, exc |-> ""]
    /\ UNCHANGED <<report, file>>

FindGroup(cap) ==
    \E name \in Names, create_mode \in BOOLEAN :
        LET r == find_group(org, heap, name, create_mode)
        IN  Called("find_group", create_mode, r, Within(cap, r.heap))

FindDepartment(cap) ==
    \E name \in Names, create_mode \in BOOLEAN :
        LET r == find_department(org, heap, name, create_mode)
        IN  Called("find_department", create_mode, r, Within(cap, r.heap))

FindBuilding(cap) ==
    \E name \in Names, create_mode \in BOOLEAN :
        LET r == find_building(org, heap, name, create_mode)
        IN  Called("find_building", create_mode, r, Within(cap, r.heap))

FindRoom(cap) ==
    \E building_name \in Names, room_identifier \in Names, create_mode \in BOOLEAN :
        LET r == find_room(org, heap, building_name, room_identifier, create_mode)
        IN  Called("find_room", create_mode, r, Within(cap, r.heap))

FindUser(cap) ==
    \E email \in Fields, name \in Fields, phone \in Fields, create_mode \in BOOLEAN :
        LET r == find_user(org, heap, email, name, phone, create_mode)
        IN  Called("find_user", create_mode, r, Within(cap, r.heap))

Init ==
    /\ org = EmptyOrg
    /\ heap = EmptyHeap
    /\ last = [op |-> "__init__", create_mode |-> FALSE, ret |-> Null, exc |-> ""]
    /\ report = NoReport
    /\ file = <<>>

\* every registry of one Organization
Next ==
    \/ FindGroup("entities")
    \/ FindDepartment("entities")
    \/ FindBuilding("entities")
    \/ FindRoom("entities")
    \/ FindUser("entities")

Spec == Init /\ [][Next]_vars

\* buildings and rooms alone
RoomNext ==
    \/ FindBuilding("rooms")
    \/ FindRoom("rooms")

RoomSpec == Init /\ [][RoomNext]_vars

\* users alone
UserNext == FindUser("users")

UserSpec == Init /\ [][UserNext]_vars

----------------------------------------------------------------------------
(* Ingestion: a Report is constructed on a file and populate reads the file
   record by record into the Organization *)

\* populate stops after this many tickets
MaxTickets == 2

\* a record of a report that has these eight columns and no other
Row(id, group, dept, building, room, email, name, phone) ==
    [c \in {"ID", "Resp Group", "Acct/Dept", "Location", "Location Room",
            "Requestor Email", "Requestor", "Requestor Phone"} |->
        CASE c = "ID" -> id
          [] c = "Resp Group" -> group
          [] c = "Acct/Dept" -> dept
          [] c = "Location" -> building
          [] c = "Location Room" -> room
          [] c = "Requestor Email" -> email
          [] c = "Requestor" -> name
          [] c = "Requestor Phone" -> phone]

\* group, department, building, room of a record
Relations ==
    {<<<<>>, <<>>, <<>>, <<>>>>,
     <<<<"G">>, <<"D">>, <<"B">>, <<"1">>>>,
     <<<<>>, <<"D">>, <<"B">>, <<>>>>}

\* requestor email, name, phone of a record
Requestors ==
    {<<<<>>, <<>>, <<>>>>,
     <<<<"e">>, <<"n">>, <<"5">>>>,
     <<<<"e">>, <<"n">>, <<>>>>,
     <<<<>>, <<"n">>, <<"5">>>>}

\* the records of a report without dates
IngestRows ==
    {Row(id, rel[1], rel[2], rel[3], rel[4], req[1], req[2], req[3]) :
        id \in {<<>>, <<"7">>}, rel \in Relations, req \in Requestors}

\* the variables after Report(filename) has left the report rep
Opened(rep) ==
    /\ report' = rep
    /\ last' = [op |-> "Report", create_mode |-> FALSE, ret |-> Null,
                exc |-> IF rep.state = "constructed" THEN "" ELSE rep.state]

\* report = Report(filename)
OpenReport(Rows) ==
    /\ report.state = "none"
    /\ \E csv_ticket \in Rows : Opened(Report(csv_ticket, None))
    /\ UNCHANGED <<org, heap, file>>

\* org.add_new_ticket(new_ticket) of the new_ticket dict_to_ticket returned
\* as d, unless dict_to_ticket raised
added(d) ==
    IF d.exc # "" THEN d
    ELSE [add_new_ticket(d.org, d.heap, d.ret) EXCEPT !.ret = d.ret]

\* the variables after one turn of the loop of populate on the record row
Read(row, done) ==
    /\ org' = done.org
    /\ heap' = done.heap
    /\ file' = Append(file, [row |-> row, ticket |-> done.ret])
    /\ report' = [report EXCEPT !.state = IF done.exc # "" THEN "raised" ELSE @]
    /\ last' = [op |-> "populate", create_mode |-> TRUE, ret |-> done.ret,
                exc |-> done.exc]

\* one turn of the loop of Report.populate: the next record of the file
PopulateRow(Rows) ==
    /\ report.state = "constructed"
    /\ Len(heap.Ticket) < MaxTickets
    /\ \E row \in Rows :
          /\ file = <<>> => row = report.sample
          /\ Read(row, added(dict_to_ticket(org, heap, report, row)))

\* the Ticket the unit test of add_new_ticket builds: id is set, and the
\* entities of the name are found or created
test_ticket(o, h, name, id) ==
    created_ticket(
      Store(
        with_department(
          with_group(
            with_requestor(with_room(Draft(o, h), name, <<"1">>), name, None, None),
            name),
          name),
        "id", id, ""))

\* the variables after org.add_new_ticket(ticket) has returned or raised
Tested(ticket, done) ==
    /\ org' = done.org
    /\ heap' = done.heap
    /\ last' = [op |-> "add_new_ticket", create_mode |-> TRUE, ret |-> ticket,
                exc |-> done.exc]

\* a caller resolves the entities of a new Ticket and adds it, as the unit
\* test of add_new_ticket does
AddNewTicket ==
    /\ Len(heap.Ticket) < MaxTickets
    /\ \E name \in {<<"A">>}, id \in {Nil, 0, 7} :
          Tested(Len(heap.Ticket) + 1, added(test_ticket(org, heap, name, id)))
    /\ UNCHANGED <<report, file>>

IngestNext ==
    \/ OpenReport(IngestRows)
    \/ PopulateRow(IngestRows)
    \/ AddNewTicket

IngestSpec == Init /\ [][IngestNext]_vars

----------------------------------------------------------------------------
(* organization.py: filter_tickets.  The criteria bundle args is a function
   on the names of the criteria it holds; args.get of a name it does not
   hold is None.  The filter reads each value for its truth only, and None
   is as false as the empty list. *)

\* args.get(key) of a datetime
ArgDate(args, key) == IF key \in DOMAIN args THEN args[key] ELSE Nil

\* args.get(key) of an entity
ArgRef(args, key) == IF key \in DOMAIN args THEN args[key] ELSE Null

\* args.get(key) of a list
ArgList(args, key) == IF key \in DOMAIN args THEN args[key] ELSE <<>>

\* the elements of a list
Elements(list) == {list[i] : i \in 1..Len(list)}

\* the list with every label canonicalized
Canonicalized(list) == [i \in 1..Len(list) |-> canonical(list[i])]

\* diagnoses_match in which "and" filtering matches as "or" filtering does
diagnoses_match_any(args, ticket) ==
    LET key == IF ArgList(args, "diagnoses") # <<>> THEN "diagnoses" ELSE "anddiagnoses"
    IN  IF ArgList(args, key) = <<>> THEN [ret |-> TRUE, args |-> args]
        ELSE [ret |-> Elements(Canonicalized(args[key]))
                          \cap Elements(Canonicalized(ticket.diagnoses)) # {},
              args |-> [args EXCEPT ![key] = Canonicalized(@)]]

\* diagnoses_match(ticket): the verdict, and args as the call leaves it (the
\* given list is canonicalized in place)
diagnoses_match(args, ticket) ==
    LET and_filtering == ArgList(args, "diagnoses") = <<>>
        key == IF and_filtering THEN "anddiagnoses" ELSE "diagnoses"
    IN  IF ArgList(args, key) = <<>> THEN [ret |-> TRUE, args |-> args]
        ELSE LET given_diagnoses == Canonicalized(args[key])
                 ticket_diagnoses == Canonicalized(ticket.diagnoses)
                 given_diagnoses_set == Elements(given_diagnoses)
                 ticket_diagnoses_set == Elements(ticket_diagnoses)
                 common == given_diagnoses_set \cap ticket_diagnoses_set
             IN  [ret |-> IF and_filtering /\ common # given_diagnoses_set THEN FALSE
                          ELSE IF common = {} THEN FALSE
                          ELSE TRUE,
                  args |-> [args EXCEPT ![key] = given_diagnoses]]

\* the loop of filter_tickets from the i-th ticket on; comparing a created
\* that is None with a datetime raises TypeError
RECURSIVE filter_loop(_, _, _, _, _, _)
filter_loop(h, tickets, i, setup, args, filtered) ==
    IF i > Len(tickets) THEN [ret |-> filtered, exc |-> "", args |-> args]
    ELSE
      LET ticket == h.Ticket[tickets[i]]
          skip == filter_loop(h, tickets, i + 1, setup, args, filtered)
          TypeError == [ret |-> <<>>, exc |-> "TypeError", args |-> args]
      IN  IF setup.building # Null /\ h.Room[ticket.room].building # setup.building
            THEN skip
          ELSE IF setup.requestors # <<>>
                  /\ ticket.requestor \notin Elements(setup.requestors)
            THEN skip
          ELSE IF setup.term_start # Nil /\ ticket.created = Nil THEN TypeError
          ELSE IF setup.term_start # Nil /\ ticket.created < setup.term_start THEN skip
          ELSE IF setup.term_end # Nil /\ ticket.created = Nil THEN TypeError
          ELSE IF setup.term_end # Nil /\ ticket.created > setup.term_end THEN skip
          ELSE LET m == diagnoses_match(args, ticket) IN
               IF ~m.ret
                 THEN filter_loop(h, tickets, i + 1, setup, m.args, filtered)
                 ELSE filter_loop(h, tickets, i + 1, setup, m.args,
                                  Append(filtered, tickets[i]))

\* filter_tickets(tickets, args, exclude); tickets is [dict |-> a dict of
\* Tickets] or [list |-> a list of Tickets]
filter_tickets(h, tickets, args, exclude) ==
    LET values == IF "dict" \in DOMAIN tickets THEN DictValues(tickets.dict)
                  ELSE tickets.list
        term_end == IF "termend" \in exclude THEN Nil ELSE ArgDate(args, "termend")
        setup == [term_start |-> IF "termstart" \in exclude THEN Nil
                                 ELSE ArgDate(args, "termstart"),
                  term_end |-> IF term_end # Nil THEN term_end + timedelta(1) ELSE Nil,
                  building |-> IF "building" \in exclude THEN Null
                               ELSE ArgRef(args, "building"),
                  requestors |-> IF "requestors" \in exclude THEN <<>>
                                 ELSE ArgList(args, "requestors")]
    IN  filter_loop(h, values, 1, setup, args, <<>>)

----------------------------------------------------------------------------
(* organization.py: get_monday and the four counting queries.  A query
   returns its dict, the exception that ended it, and the bundle as the call
   leaves it. *)

\* the loop of get_monday: one day back until the day is a Monday
RECURSIVE monday_loop(_, _)
monday_loop(date, steps) ==
    IF weekday(date) = 0 THEN [date |-> date, steps |-> steps]
    ELSE monday_loop(date - timedelta(1), steps + 1)

\* get_monday that keeps the time of day of the date
get_monday_keeps_time(date) ==
    IF date = Nil THEN Throws ELSE monday_loop(date, 0).date

\* get_monday(date); datetime.combine raises TypeError on None
get_monday(date) ==
    IF date = Nil THEN Throws ELSE monday_loop(midnight(date), 0).date

DEFAULT_WEEKS == 11

\* args.get(key) of an int
ArgInt(args, key) == IF key \in DOMAIN args THEN args[key] ELSE Nil

\* the loop of per_week over self.tickets that finds the earliest created;
\* comparing None with a datetime or with None raises TypeError
RECURSIVE earliest_loop(_, _, _, _)
earliest_loop(h, tickets, i, first_week) ==
    IF i > Len(tickets) THEN first_week
    ELSE LET created == h.Ticket[tickets[i]].created
             first == IF first_week = Nil THEN created ELSE first_week
         IN  IF created = Nil \/ first = Nil THEN Throws
             ELSE earliest_loop(h, tickets, i + 1,
                                IF created < first THEN created ELSE first)

\* get_monday of the earliest created the loop has found
Monday(first_week) == IF first_week = Throws THEN Throws ELSE get_monday(first_week)

\* first_week of per_week, Throws when finding it raises TypeError
first_week_of(o, h, args) ==
    IF ArgDate(args, "termstart") # Nil THEN get_monday(args["termstart"])
    ELSE Monday(earliest_loop(h, DictValues(o.tickets), 1, Nil))

\* last_week of per_week
last_week_of(args, first_week) ==
    IF ArgInt(args, "weeks") \notin {Nil, 0}
      THEN first_week + (args["weeks"] - 1) * timedelta(7)
    ELSE IF ArgDate(args, "termend") # Nil THEN get_monday(args["termend"])
    ELSE first_week + (DEFAULT_WEEKS - 1) * timedelta(7)

\* the loop of per_week that sets a count of 0 for every week
RECURSIVE week_loop(_, _, _)
week_loop(week_i, last_week, week_counts) ==
    IF week_i <= last_week
    THEN week_loop(week_i + timedelta(7), last_week, DictSet(week_counts, week_i, 0))
    ELSE week_counts

\* the loop of per_week that sorts the filtered tickets into week_counts
RECURSIVE count_loop(_, _, _, _, _, _)
count_loop(h, filtered, i, first_week, last_week, week_counts) ==
    IF i > Len(filtered) THEN [ret |-> week_counts, exc |-> ""]
    ELSE LET ticket_week == get_monday(h.Ticket[filtered[i]].created) IN
         IF ticket_week = Throws THEN [ret |-> <<>>, exc |-> "TypeError"]
         ELSE IF ticket_week >= first_week /\ ticket_week <= last_week
           THEN IF ~DictHas(week_counts, ticket_week)
                  THEN [ret |-> <<>>, exc |-> "KeyError"]
                ELSE count_loop(h, filtered, i + 1, first_week, last_week,
                                DictSet(week_counts, ticket_week,
                                        DictGet(week_counts, ticket_week, 0) + 1))
         ELSE count_loop(h, filtered, i + 1, first_week, last_week, week_counts)

\* the result of per_week: the counts c made from what filter_tickets returned
week_result(c, f, first_week, last_week) ==
    [ret |-> c.ret, exc |-> c.exc, args |-> f.args,
     first_week |-> first_week, last_week |-> last_week]

\* per_week once filter_tickets has returned f
week_counted(h, f, first_week, last_week) ==
    week_result(count_loop(h, f.ret, 1, first_week, last_week,
                           week_loop(first_week, last_week, <<>>)),
                f, first_week, last_week)

\* per_week once first_week is found
per_week_from(o, h, args, first_week) ==
    IF first_week = Throws
    THEN [ret |-> <<>>, exc |-> "TypeError", args |-> args,
          first_week |-> Nil, last_week |-> Nil]
    ELSE week_counted(h, filter_tickets(h, [dict |-> o.tickets], args,
                                        {"termstart", "termend"}),
                      first_week, last_week_of(args, first_week))

\* Organization.per_week(args)
per_week(o, h, args) == per_week_from(o, h, args, first_week_of(o, h, args))

\* the result of a counting query that filter_tickets ended by raising
raised(f) == [ret |-> <<>>, exc |-> f.exc, args |-> f.args]

\* the inner loop of per_building over the rooms of one building: count is
\* the sum of len(filter_tickets(room.tickets, args))
RECURSIVE room_sum(_, _, _, _, _)
room_summed(h, rooms, i, count, f) ==
    IF f.exc # "" THEN raised(f)
    ELSE room_sum(h, rooms, i + 1, f.args, count + Len(f.ret))

room_sum(h, rooms, i, args, count) ==
    IF i > Len(rooms) THEN [ret |-> count, exc |-> "", args |-> args]
    ELSE room_summed(h, rooms, i, count,
                     filter_tickets(h, [list |-> h.Room[rooms[i]].tickets], args, {}))

\* the outer loop of per_building over self.buildings
RECURSIVE building_loop(_, _, _, _, _)
building_counted(h, buildings, i, building_counts, c) ==
    IF c.exc # "" THEN c
    ELSE building_loop(h, buildings, i + 1, c.args,
                       DictSet(building_counts, buildings[i], c.ret))

building_loop(h, buildings, i, args, building_counts) ==
    IF i > Len(buildings) THEN [ret |-> building_counts, exc |-> "", args |-> args]
    ELSE building_counted(h, buildings, i, building_counts,
                          room_sum(h, DictValues(h.Building[buildings[i]].rooms), 1, args, 0))

\* per_building that leaves the building of the bundle out of its filtering
per_building_any_building(o, h, args) ==
    building_loop(h, DictValues(o.buildings), 1,
                  [k \in DOMAIN args \ {"building"} |-> args[k]], <<>>)

\* Organization.per_building(args)
per_building(o, h, args) == building_loop(h, DictValues(o.buildings), 1, args, <<>>)

\* the loop of per_room over rooms: room_counts[rm] is
\* len(filter_tickets(rm.tickets, args, exclude))
RECURSIVE room_loop(_, _, _, _, _, _)
room_counted(h, rooms, i, exclude, room_counts, f) ==
    IF f.exc # "" THEN raised(f)
    ELSE room_loop(h, rooms, i + 1, f.args, exclude,
                   DictSet(room_counts, rooms[i], Len(f.ret)))

room_loop(h, rooms, i, args, exclude, room_counts) ==
    IF i > Len(rooms) THEN [ret |-> room_counts, exc |-> "", args |-> args]
    ELSE room_counted(h, rooms, i, exclude, room_counts,
                      filter_tickets(h, [list |-> h.Room[rooms[i]].tickets], args, exclude))

\* the rooms of every building of self.buildings, in the order per_room
\* visits them
every_room(o, h) ==
    Flatten([i \in 1..Len(o.buildings) |-> DictValues(h.Building[o.buildings[i].val].rooms)])

\* Organization.per_room(args)
per_room(o, h, args) ==
    IF ArgRef(args, "building") # Null
    THEN room_loop(h, DictValues(h.Building[args["building"]].rooms), 1, args,
                   {"building"}, <<>>)
    ELSE room_loop(h, every_room(o, h), 1, args, {}, <<>>)

\* the loop of per_requestor over the users of every bucket of self.users
RECURSIVE requestor_loop(_, _, _, _, _)
requestor_counted(h, users, i, requestor_counts, f) ==
    IF f.exc # "" THEN raised(f)
    ELSE requestor_loop(h, users, i + 1, f.args,
                        DictSet(requestor_counts, users[i], Len(f.ret)))

requestor_loop(h, users, i, args, requestor_counts) ==
    IF i > Len(users) THEN [ret |-> requestor_counts, exc |-> "", args |-> args]
    ELSE requestor_counted(h, users, i, requestor_counts,
                           filter_tickets(h, [list |-> h.User[users[i]].tickets], args, {}))

\* Organization.per_requestor(args)
per_requestor(o, h, args) ==
    requestor_loop(h, Flatten(DictValues(o.users)), 1, args, <<>>)

----------------------------------------------------------------------------
(* Queries: the report is read into the Organization and its tickets are
   filtered *)

\* a record of a report that has these five columns and no other
QueryRow(id, building, email, created, diagnoses) ==
    [c \in {"ID", "Location", "Requestor Email", "Created",
            "Classroom Problem Types"} |->
        CASE c = "ID" -> id
          [] c = "Location" -> building
          [] c = "Requestor Email" -> email
          [] c = "Created" -> created
          [] c = "Classroom Problem Types" -> diagnoses]

\* "2023-04-DD HH:MM"
April(D, H1, H2, M1, M2) ==
    <<"2", "0", "2", "3", "-", "0", "4", "-", "0", D, " ", H1, H2, ":", M1, M2>>

\* the first days of the term, as clean_args reads --termstart and --termend
Apr3 == datetime(2023, 4, 3, 0, 0)
Apr4 == datetime(2023, 4, 4, 0, 0)

\* the records of a report with dates and diagnoses: "A, B" and "A-b" name
\* diagnoses, one record has no diagnosis and one has no date
QueryRows ==
    {QueryRow(<<"1">>, <<"B">>, <<"e">>, April("3", "0", "0", "0", "0"),
              <<"A", ",", " ", "B">>),
     QueryRow(<<"2">>, <<"B">>, <<"f">>, April("3", "2", "3", "5", "9"),
              <<"A", "-", "b">>),
     QueryRow(<<"3">>, <<"C">>, <<"e">>, April("4", "0", "0", "0", "0"), <<>>),
     QueryRow(<<"4">>, <<"C">>, <<"f">>, <<>>, <<"A", ",", " ", "B">>),
     QueryRow(<<"5">>, <<"B">>, <<"e">>, April("2", "2", "3", "5", "9"),
              <<"C">>)}

\* the ticket collections a caller filters: the tickets table, the list of
\* its values, and the list of a room
Collections ==
    {[dict |-> org.tickets], [list |-> DictValues(org.tickets)]}
    \cup {[list |-> heap.Room[r].tickets] : r \in 1..Len(heap.Room)}

\* the criteria bundles the filter is run on
Queries ==
    {<<>>}
    \cup {[k \in {"diagnoses"} |-> <<<<"A">>, <<"C">>>>],
          [k \in {"anddiagnoses"} |-> <<<<"A">>, <<"C">>>>],
          [k \in {"diagnoses"} |-> <<<<"a", " ", "B">>>>],
          [k \in {"termstart", "termend"} |-> Apr3]}
    \cup {[k \in {"building"} |-> b] : b \in 1..Len(heap.Building)}
    \cup {[k \in {"requestors"} |-> <<u>>] : u \in 1..Len(heap.User)}

\* filter_tickets(tickets, args, exclude) on the populated Organization
FilterTickets ==
    /\ Len(heap.Ticket) > 0
    /\ \E tickets \in Collections, args \in Queries,
          exclude \in {{}, {"termstart", "termend"}, {"building"}} :
          LET r == filter_tickets(heap, tickets, args, exclude)
          IN  last' = [op |-> "filter_tickets", create_mode |-> FALSE,
                       ret |-> r.ret, exc |-> r.exc, tickets |-> tickets,
                       args |-> args, exclude |-> exclude, left |-> r.args]
    /\ UNCHANGED <<org, heap, report, file>>

QueryNext ==
    \/ OpenReport(QueryRows)
    \/ PopulateRow(QueryRows)
    \/ FilterTickets

QuerySpec == Init /\ [][QueryNext]_vars

----------------------------------------------------------------------------
(* Counting: the report is read into the Organization and its tickets are
   counted per week, per building, per room and per requestor *)

\* the record with a room and a requestor name besides
Located(row, room, name) ==
    [c \in DOMAIN row \cup {"Location Room", "Requestor"} |->
        CASE c = "Location Room" -> room
          [] c = "Requestor" -> name
          [] OTHER -> row[c]]

\* the records of a report in which building B has two rooms and the email
\* "e" is shared by two requestors
CountRows ==
    {Located(row, IF row["ID"] = <<"2">> THEN <<"2">> ELSE <<"1">>,
             IF row["Requestor Email"] = <<"f">> THEN <<>>
             ELSE IF row["ID"] = <<"3">> THEN <<"M">> ELSE <<"N">>) :
        row \in QueryRows}

\* the first day of the week after the one the records are dated in
Apr10 == datetime(2023, 4, 10, 0, 0)

\* the criteria bundles the counting queries are run on
Counted ==
    {<<>>,
     [k \in {"weeks"} |-> 2],
     [k \in {"termstart"} |-> Apr4],
     [k \in {"termstart", "termend"} |-> IF k = "termstart" THEN Apr3 ELSE Apr10],
     [k \in {"diagnoses"} |-> <<<<"a", " ", "B">>>>]}
    \cup {[k \in {"building"} |-> b] : b \in 1..Len(heap.Building)}

\* the variables after the counting query op has returned r for args
Queried(op, args, r) ==
    /\ last' = [op |-> op, create_mode |-> FALSE, ret |-> r.ret, exc |-> r.exc,
                args |-> args, left |-> r.args]
    /\ UNCHANGED <<org, heap, report, file>>

\* org.per_week(args)
PerWeek == \E args \in Counted : Queried("per_week", args, per_week(org, heap, args))

\* org.per_building(args)
PerBuilding == \E args \in Counted : Queried("per_building", args, per_building(org, heap, args))

\* org.per_room(args)
PerRoom == \E args \in Counted : Queried("per_room", args, per_room(org, heap, args))

\* org.per_requestor(args)
PerRequestor ==
    \E args \in Counted : Queried("per_requestor", args, per_requestor(org, heap, args))

CountNext ==
    \/ OpenReport(CountRows)
    \/ PopulateRow(CountRows)
    \/ PerWeek
    \/ PerBuilding
    \/ PerRoom
    \/ PerRequestor

CountSpec == Init /\ [][CountNext]_vars

----------------------------------------------------------------------------
(* get_monday on timestamps *)

\* the timestamps fall on the first days of a month
MaxDay == 14

\* timestamps of two years, one of them a leap year, at midnight, in the
\* afternoon and in the last minute of the day
Timestamps ==
    {datetime(y, m, d, t[1], t[2]) :
        y \in {2023, 2024}, m \in {1, 3, 6, 7}, d \in 1..MaxDay,
        t \in {<<0, 0>>, <<12, 30>>, <<23, 59>>}}

\* a timestamp is at hand
MondayInit ==
    /\ org = EmptyOrg
    /\ heap = EmptyHeap
    /\ report = NoReport
    /\ file = <<>>
    /\ \E date \in Timestamps :
          last = [op |-> "datetime", create_mode |-> FALSE, ret |-> date, exc |-> "",
                  date |-> date, steps |-> 0]

\* get_monday(date) of the timestamp at hand, which may be a Monday that
\* get_monday has returned; steps is the number of turns of its loop
GetMonday ==
    /\ last' = [op |-> "get_monday", create_mode |-> FALSE,
                ret |-> get_monday(last.ret), exc |-> "", date |-> last.ret,
                steps |-> monday_loop(midnight(last.ret), 0).steps]
    /\ UNCHANGED <<org, heap, report, file>>

MondayNext == GetMonday

MondaySpec == MondayInit /\ [][MondayNext]_vars

----------------------------------------------------------------------------
(* The schema: get_attribute, get_fields_present and get_time_format on the
   first record of a report *)

\* the record of the columns whose value is not None
Record(values) == [c \in {k \in DOMAIN values : values[k] # None} |-> values[c]]

\* "04/03/2023 10:00", "2023-04-03 10:00 PM" and a text that is no time
Slashed == <<"0", "4", "/", "0", "3", "/", "2", "0", "2", "3", " ", "1", "0", ":", "0", "0">>
Evening == April("3", "1", "0", "0", "0") \o <<" ", "P", "M">>
NoTime == <<"s", "o", "o", "n">>

\* first records: each column is left out of the report (None), blank or
\* holds a value
Samples ==
    {Record([c \in {"ID", "Location", "Class Support Building", "Created", "Modified"} |->
                CASE c = "ID" -> id
                  [] c = "Location" -> location
                  [] c = "Class Support Building" -> legacy
                  [] c = "Created" -> created
                  [] c = "Modified" -> modified]) :
        id \in {None, <<>>, <<"7">>},
        location \in {None, <<>>, <<"L">>},
        legacy \in {None, <<>>, <<"K">>},
        created \in {None, <<>>, April("3", "1", "0", "0", "0"), Slashed, NoTime},
        modified \in {None, Evening, NoTime}}

\* the first record of a report has been read
SchemaInit ==
    /\ org = EmptyOrg
    /\ heap = EmptyHeap
    /\ report = NoReport
    /\ file = <<>>
    /\ \E csv_ticket \in Samples :
          last = [op |-> "DictReader", create_mode |-> FALSE, ret |-> None, exc |-> "",
                  csv_ticket |-> csv_ticket, attribute |-> ""]

\* the variables after op has returned ret, or raised exc, on the record
Resolved(op, attribute, ret, exc) ==
    /\ last' = [op |-> op, create_mode |-> FALSE, ret |-> ret, exc |-> exc,
                csv_ticket |-> last.csv_ticket, attribute |-> attribute]
    /\ UNCHANGED <<org, heap, report, file>>

\* get_attribute(attribute_name) in dict_to_ticket of the record
GetAttribute ==
    \E attribute \in {"id", "building", "created", "modified"} :
        Resolved("get_attribute", attribute, get_attribute(last.csv_ticket, attribute), "")

\* get_fields_present(csv_ticket), which exits when "id" is missing
GetFieldsPresent ==
    Resolved("get_fields_present", "",
             [fields_present |-> get_fields_present(last.csv_ticket),
              legacy_fields |-> legacy_fields(last.csv_ticket)],
             IF \A i \in 1..Len(get_fields_present(last.csv_ticket)) :
                    get_fields_present(last.csv_ticket)[i] # "id"
             THEN "SystemExit" ELSE "")

\* get_time_format(csv_ticket)
GetTimeFormat ==
    Resolved("get_time_format", "", get_time_format(last.csv_ticket).format,
             get_time_format(last.csv_ticket).exc)

SchemaNext ==
    \/ GetAttribute
    \/ GetFieldsPresent
    \/ GetTimeFormat

SchemaSpec == SchemaInit /\ [][SchemaNext]_vars

----------------------------------------------------------------------------
(* Loading: a Report is constructed on a file that may break the schema, and
   populate reads records that may be malformed *)

\* records of ID, Created and Modified, each left out of the report, blank,
\* well-formed or malformed
LoadRows ==
    {Record([c \in {"ID", "Created", "Modified"} |->
                CASE c = "ID" -> id
                  [] c = "Created" -> created
                  [] c = "Modified" -> modified]) :
        id \in {None, <<>>, <<"7">>, <<"x">>},
        created \in {None, <<>>, April("3", "1", "0", "0", "0"), Slashed, NoTime},
        modified \in {None, NoTime}}

\* report = Report(filename) on a file without a record: next() of the
\* reader raises StopIteration
OpenEmptyReport ==
    /\ report.state = "none"
    /\ Opened([NoReport EXCEPT !.state = "StopIteration"])
    /\ UNCHANGED <<org, heap, file>>

LoadNext ==
    \/ OpenReport(LoadRows)
    \/ OpenEmptyReport
    \/ PopulateRow(LoadRows)

LoadSpec == Init /\ [][LoadNext]_vars

----------------------------------------------------------------------------
(* Claims about the registry *)

\* the Room registered for (building name, room identifier), Null if none
RoomAt(o, h, building_name, room_identifier) ==
    IF DictGet(o.buildings, building_name, Null) = Null THEN Null
    ELSE DictGet(h.Building[DictGet(o.buildings, building_name, Null)].rooms,
                 room_identifier, Null)

\* find-or-create on a registry keyed by one name, from the current state
ConvergesByName(find(_, _, _, _), Reg(_), Objs(_)) ==
    \A K \in Names :
        LET had == DictGet(Reg(org), OrUndefined(K), Null)
            r1 == find(org, heap, K, TRUE)
        IN  /\ r1.ret # Null
            /\ DictGet(Reg(r1.org), OrUndefined(K), Null) = r1.ret
            /\ had = Null =>
                   /\ Len(Reg(r1.org)) = Len(Reg(org)) + 1
                   /\ Len(Objs(r1.heap)) = Len(Objs(heap)) + 1
            /\ had # Null =>
                   /\ r1.ret = had
                   /\ r1.org = org
                   /\ r1.heap = heap
                   /\ find(org, heap, K, FALSE).ret = had
            /\ \A create_mode \in BOOLEAN :
                   LET r2 == find(r1.org, r1.heap, K, create_mode)
                   IN  r2.ret = r1.ret /\ r2.org = r1.org /\ r2.heap = r1.heap

\* find-or-create of a Room, from the current state
ConvergesByPair ==
    \A B \in Names, R \in Names :
        LET had == RoomAt(org, heap, OrUndefined(B), OrUndefined(R))
            r1 == find_room(org, heap, B, R, TRUE)
        IN  /\ r1.ret # Null
            /\ RoomAt(r1.org, r1.heap, OrUndefined(B), OrUndefined(R)) = r1.ret
            /\ had = Null => Len(r1.heap.Room) = Len(heap.Room) + 1
            /\ had # Null =>
                   /\ r1.ret = had
                   /\ r1.org = org
                   /\ r1.heap = heap
                   /\ find_room(org, heap, B, R, FALSE).ret = had
            /\ \A create_mode \in BOOLEAN :
                   LET r2 == find_room(r1.org, r1.heap, B, R, create_mode)
                   IN  r2.ret = r1.ret /\ r2.org = r1.org /\ r2.heap = r1.heap

\* a call never replaces or drops an entity that is registered
Registered(o, h) ==
    {<<"group", o.groups[i].key, o.groups[i].val>> : i \in 1..Len(o.groups)}
    \cup {<<"department", o.departments[i].key, o.departments[i].val>> :
            i \in 1..Len(o.departments)}
    \cup {<<"building", o.buildings[i].key, o.buildings[i].val>> :
            i \in 1..Len(o.buildings)}
    \cup UNION {{<<"room", b, h.Building[b].rooms[j].key, h.Building[b].rooms[j].val>> :
                    j \in 1..Len(h.Building[b].rooms)} : b \in 1..Len(h.Building)}

\* C2: for find_building, find_group, find_department and find_room and any
\* key K (blank values included), a create_mode call never returns None; on a
\* registry that lacks K it registers exactly one entity; every later call
\* with the same K, with or without create_mode, returns that same entity and
\* leaves the registry as it is; registered entities are never replaced.
C2_FindOrCreateConverges ==
    /\ [](/\ ConvergesByName(find_group, LAMBDA o : o.groups, LAMBDA h : h.Group)
          /\ ConvergesByName(find_department, LAMBDA o : o.departments,
                             LAMBDA h : h.Department)
          /\ ConvergesByName(find_building, LAMBDA o : o.buildings,
                             LAMBDA h : h.Building)
          /\ ConvergesByPair)
    /\ [][Registered(org, heap) \subseteq Registered(org', heap')]_vars

\* C2 witness: a create_mode call has returned an entity that an earlier call
\* registered, next to another entity of the same registry
C2_Witness ==
    /\ last.op = "find_department"
    /\ last.create_mode
    /\ Len(org.departments) = 2
    /\ last.ret = org.departments[1].val

C3_UserFindOrCreateConverges ==
    \A email \in Fields, name \in Fields, phone \in Fields :
        LET r1 == find_user(org, heap, email, name, phone, TRUE)
        IN  find_user(org, heap, email, name, phone, FALSE).ret = <<>> =>
              /\ Len(r1.ret) = 1
              /\ Len(r1.heap.User) = Len(heap.User) + 1
              /\ \A create_mode \in BOOLEAN :
                     LET r2 == find_user(r1.org, r1.heap, email, name, phone, create_mode)
                     IN  r2.ret = r1.ret /\ r2.heap = r1.heap /\ r2.org = r1.org

\* the registered users, in registry order, that have every supplied field
MatchingUsers(o, h, email, name, phone) ==
    SelectSeq(Flatten(DictValues(o.users)),
              LAMBDA u : /\ (~Truthy(email) \/ h.User[u].email = email)
                         /\ (~Truthy(name) \/ h.User[u].name = name)
                         /\ (~Truthy(phone) \/ h.User[u].phone = phone))

\* C5: find_user without create_mode returns exactly the registered users
\* that match every supplied field, in registry order, and the empty list
\* when no field is supplied.
C5_LookupReturnsTheMatchSet ==
    \A email \in Fields, name \in Fields, phone \in Fields :
        find_user(org, heap, email, name, phone, FALSE).ret =
            IF Truthy(email) \/ Truthy(name) \/ Truthy(phone)
            THEN MatchingUsers(org, heap, email, name, phone)
            ELSE <<>>

\* C5 witness: a lookup has returned two of three registered users that share
\* an email
C5_Witness ==
    /\ last.op = "find_user"
    /\ ~last.create_mode
    /\ Len(last.ret) = 2
    /\ Len(heap.User) = 3
    /\ Len(org.users) = 1

\* C6: every building is registered under its name, every Room stored under
\* key r of a building has identifier r and refers back to that building, two
\* Rooms are the same iff building name and identifier are equal, and two
\* find_room calls return the same Room iff they name the same pair.
C6_RoomIdentity ==
    /\ \A i \in 1..Len(org.buildings) :
          heap.Building[org.buildings[i].val].name = org.buildings[i].key
    /\ \A b \in 1..Len(heap.Building) :
          /\ DictGet(org.buildings, heap.Building[b].name, Null) = b
          /\ \A j \in 1..Len(heap.Building[b].rooms) :
                LET key == heap.Building[b].rooms[j].key
                    room == heap.Room[heap.Building[b].rooms[j].val]
                IN  room.identifier = key /\ room.building = b
    /\ \A r \in 1..Len(heap.Room) :
          RoomAt(org, heap, heap.Building[heap.Room[r].building].name,
                 heap.Room[r].identifier) = r
    /\ \A B1 \in Names, R1 \in Names, B2 \in Names, R2 \in Names :
          LET x == find_room(org, heap, B1, R1, TRUE)
              y == find_room(x.org, x.heap, B2, R2, TRUE)
              z == find_room(y.org, y.heap, B1, R1, FALSE)
          IN  /\ (x.ret = y.ret) <=>
                     (OrUndefined(B1) = OrUndefined(B2) /\ OrUndefined(R1) = OrUndefined(R2))
              /\ z.ret = x.ret
              /\ y.heap.Room[y.ret].identifier = OrUndefined(R2)
              /\ y.heap.Building[y.heap.Room[y.ret].building].name = OrUndefined(B2)
              /\ DictGet(y.org.buildings, OrUndefined(B2), Null) = y.heap.Room[y.ret].building

\* C6 witness: two buildings each hold a room with the same identifier
C6_Witness ==
    /\ last.op = "find_room"
    /\ Len(heap.Room) = 2
    /\ heap.Room[1].identifier = heap.Room[2].identifier
    /\ heap.Room[1].building # heap.Room[2].building

----------------------------------------------------------------------------
(* Claims about ingestion *)

\* how many times x occurs in the list
Count(x, list) == Cardinality({i \in 1..Len(list) : list[i] = x})

\* the tickets add_new_ticket has accepted
Added == {t \in 1..Len(heap.Ticket) : heap.Ticket[t].id # Nil}

\* every back-reference list of the organization
TicketLists ==
    {heap.Room[i].tickets : i \in 1..Len(heap.Room)}
    \cup {heap.User[i].tickets : i \in 1..Len(heap.User)}
    \cup {heap.Group[i].tickets : i \in 1..Len(heap.Group)}
    \cup {heap.Department[i].tickets : i \in 1..Len(heap.Department)}

\* C1 (as claimed): every ticket that was added is the value stored under its
\* id in the tickets table and appears exactly once in the list of its room,
\* requestor, responsible group and department, and every ticket of any
\* back-reference list is the ticket stored under its id.
C1_AddedTicketsAreReachable ==
    /\ \A t \in Added :
          LET ticket == heap.Ticket[t] IN
          /\ DictGet(org.tickets, ticket.id, Null) = t
          /\ Count(t, heap.Room[ticket.room].tickets) = 1
          /\ Count(t, heap.User[ticket.requestor].tickets) = 1
          /\ Count(t, heap.Group[ticket.responsible_group].tickets) = 1
          /\ Count(t, heap.Department[ticket.department].tickets) = 1
    /\ \A list \in TicketLists : \A i \in 1..Len(list) :
          DictGet(org.tickets, heap.Ticket[list[i]].id, Null) = list[i]

\* the value of the record read as file[i] is blank for the attribute
Blank(i, attribute) == ~Truthy(get_attribute(file[i].row, attribute))

\* C7: no registry key and no identity field of an entity is empty or None,
\* and every ingested record with a blank responsible group, department,
\* building, room or requestor (all three fields) refers to the entity of
\* that registry keyed "Undefined".
C7_BlankIsUndefined ==
    /\ \A i \in 1..Len(org.groups) :
          Truthy(org.groups[i].key) /\ Truthy(heap.Group[org.groups[i].val].name)
    /\ \A i \in 1..Len(org.departments) :
          Truthy(org.departments[i].key)
          /\ Truthy(heap.Department[org.departments[i].val].name)
    /\ \A i \in 1..Len(org.buildings) :
          Truthy(org.buildings[i].key) /\ Truthy(heap.Building[org.buildings[i].val].name)
    /\ \A b \in 1..Len(heap.Building) : \A j \in 1..Len(heap.Building[b].rooms) :
          Truthy(heap.Building[b].rooms[j].key)
          /\ Truthy(heap.Room[heap.Building[b].rooms[j].val].identifier)
    /\ \A i \in 1..Len(org.users) : Truthy(org.users[i].key)
    /\ \A u \in 1..Len(heap.User) :
          Truthy(heap.User[u].email) /\ Truthy(heap.User[u].name)
          /\ Truthy(heap.User[u].phone)
    /\ \A i \in 1..Len(file) :
          file[i].ticket # Null =>
            LET ticket == heap.Ticket[file[i].ticket]
                room == heap.Room[ticket.room]
            IN  /\ Blank(i, "responsible_group") =>
                      ticket.responsible_group = DictGet(org.groups, Undefined, Null)
                /\ Blank(i, "department") =>
                      ticket.department = DictGet(org.departments, Undefined, Null)
                /\ Blank(i, "building") =>
                      room.building = DictGet(org.buildings, Undefined, Null)
                /\ Blank(i, "room_identifier") =>
                      ticket.room = DictGet(heap.Building[room.building].rooms,
                                            Undefined, Null)
                /\ (Blank(i, "requestor_email") /\ Blank(i, "requestor_name")
                        /\ Blank(i, "requestor_phone")) =>
                      /\ Count(ticket.requestor, DictGet(org.users, Undefined, <<>>)) = 1
                      /\ \A u \in 1..Len(heap.User) :
                            u = ticket.requestor <=>
                                /\ heap.User[u].email = Undefined
                                /\ heap.User[u].name = Undefined
                                /\ heap.User[u].phone = Undefined

\* C7 witness: populate has read two records in which every relational value
\* is blank, and both tickets refer to the same five entities
C7_Witness ==
    /\ last.op = "populate"
    /\ Len(file) = 2
    /\ file[2].ticket # Null
    /\ \A i \in {1, 2} :
          \A a \in {"responsible_group", "department", "building", "room_identifier",
                    "requestor_email", "requestor_name", "requestor_phone"} : Blank(i, a)
    /\ heap.Ticket[file[1].ticket].requestor = heap.Ticket[file[2].ticket].requestor
    /\ heap.Ticket[file[1].ticket].room = heap.Ticket[file[2].ticket].room
    /\ heap.Ticket[file[1].ticket].department = heap.Ticket[file[2].ticket].department
    /\ heap.Ticket[file[1].ticket].responsible_group
          = heap.Ticket[file[2].ticket].responsible_group

\* C8 (as claimed): the User an ingested record resolves to has exactly the
\* record's email, name and phone, each blank replaced by "Undefined".
C8_RequestorAsRecorded ==
    \A i \in 1..Len(file) :
        file[i].ticket # Null =>
            LET user == heap.User[heap.Ticket[file[i].ticket].requestor] IN
            /\ user.email = OrUndefined(get_attribute(file[i].row, "requestor_email"))
            /\ user.name = OrUndefined(get_attribute(file[i].row, "requestor_name"))
            /\ user.phone = OrUndefined(get_attribute(file[i].row, "requestor_phone"))

----------------------------------------------------------------------------
(* Claims about filter_tickets *)

\* the criteria bundle that holds the criteria given a value; Nil, Null and
\* the empty list stand for a criterion left out
Bundle(termstart, termend, building, requestors, diagnoses, anddiagnoses) ==
    [k \in {c \in {"termstart", "termend", "building", "requestors", "diagnoses",
                   "anddiagnoses"} :
              CASE c = "termstart" -> termstart # Nil
                [] c = "termend" -> termend # Nil
                [] c = "building" -> building # Null
                [] c = "requestors" -> requestors # <<>>
                [] c = "diagnoses" -> diagnoses # <<>>
                [] c = "anddiagnoses" -> anddiagnoses # <<>>} |->
        CASE k = "termstart" -> termstart
          [] k = "termend" -> termend
          [] k = "building" -> building
          [] k = "requestors" -> requestors
          [] k = "diagnoses" -> diagnoses
          [] k = "anddiagnoses" -> anddiagnoses]

\* the lists of diagnoses a caller gives
Givens ==
    {<<<<"A">>, <<"C">>>>, <<<<"a", " ", "B">>>>, <<<<"A">>, <<"B">>>>, <<<<"C">>>>,
     <<<<"a", "-", "b">>, <<"A">>>>}

\* the (diagnoses, anddiagnoses) of a bundle: at most one mode is given
Modes ==
    {<<<<>>, <<>>>>} \cup {<<g, <<>>>> : g \in Givens} \cup {<<<<>>, g>> : g \in Givens}

\* the bundles over the entities of the Organization
Bundles ==
    {Bundle(termstart, termend, building, requestors, mode[1], mode[2]) :
        termstart \in {Nil, Apr3}, termend \in {Nil, Apr3},
        building \in {Null} \cup 1..Len(heap.Building),
        requestors \in {<<>>} \cup {<<u>> : u \in 1..Len(heap.User)},
        mode \in {<<<<>>, <<>>>>, <<<<<<"A">>, <<"C">>>>, <<>>>>,
                  <<<<>>, <<<<"A">>, <<"C">>>>>>}}

\* the Tickets of a collection, in its order
ValuesOf(tickets) ==
    IF "dict" \in DOMAIN tickets THEN DictValues(tickets.dict) ELSE tickets.list

\* the criterion is in the bundle and not named in exclude
Active(args, exclude, criterion) ==
    criterion \in DOMAIN args /\ criterion \notin exclude

\* the canonical set of the labels of a list
CanonicalSet(list) == {canonical(list[i]) : i \in 1..Len(list)}

\* the Ticket satisfies every active criterion of the bundle
Satisfies(t, args, exclude) ==
    LET ticket == heap.Ticket[t] IN
    /\ Active(args, exclude, "termstart") =>
          ticket.created # Nil /\ args["termstart"] <= ticket.created
    /\ Active(args, exclude, "termend") =>
          ticket.created # Nil /\ ticket.created < args["termend"] + timedelta(1)
    /\ Active(args, exclude, "building") =>
          heap.Room[ticket.room].building = args["building"]
    /\ Active(args, exclude, "requestors") =>
          ticket.requestor \in Elements(args["requestors"])
    /\ Active(args, exclude, "diagnoses") =>
          CanonicalSet(args["diagnoses"]) \cap CanonicalSet(ticket.diagnoses) # {}
    /\ Active(args, exclude, "anddiagnoses") =>
          CanonicalSet(args["anddiagnoses"]) \subseteq CanonicalSet(ticket.diagnoses)

\* C9 (as claimed): filter_tickets returns, in the order of the input, exactly
\* the tickets that satisfy every criterion that is in the bundle and not
\* named in exclude, the diagnosis filter included, whether the input is the
\* tickets dict or a list.
C9_FilterReturnsTheSatisfying ==
    \A tickets \in Collections, args \in Bundles,
       exclude \in {{}, {"termstart", "termend"}, {"building"}, {"requestors"},
                    {"diagnoses"}, {"anddiagnoses"}} :
        LET r == filter_tickets(heap, tickets, args, exclude) IN
        /\ r.exc = ""
        /\ r.ret = SelectSeq(ValuesOf(tickets), LAMBDA t : Satisfies(t, args, exclude))

\* C10: with only a diagnosis filter in the bundle, a ticket is returned iff,
\* on canonical labels, its diagnoses and the given ones intersect ("or"
\* filtering) or the given ones are all among its diagnoses ("and" filtering);
\* "A-b" and "a B" are the same canonical label, and a ticket without
\* diagnoses is never returned.
C10_DiagnosesMatchOnCanonicalLabels ==
    /\ canonical(<<"A", "-", "b">>) = <<"a", "b">>
    /\ canonical(<<"a", " ", "B">>) = <<"a", "b">>
    /\ \A tickets \in Collections, mode \in Modes \ {<<<<>>, <<>>>>} :
          LET r == filter_tickets(heap, tickets,
                                  Bundle(Nil, Nil, Null, <<>>, mode[1], mode[2]), {})
              given == {canonical(g) : g \in Elements(mode[1] \o mode[2])}
              Matches(t) ==
                  LET mine == {canonical(d) : d \in Elements(heap.Ticket[t].diagnoses)}
                  IN  IF mode[1] # <<>> THEN \E g \in given : g \in mine
                      ELSE \A g \in given : g \in mine
          IN  /\ r.exc = ""
              /\ r.ret = SelectSeq(ValuesOf(tickets), Matches)
              /\ \A i \in 1..Len(r.ret) : heap.Ticket[r.ret[i]].diagnoses # <<>>

\* C10 witness: the filter has run with the diagnoses A, C in "or" mode and
\* returned a ticket whose diagnoses are A, B, which the same diagnoses in
\* "and" mode leave out
C10_Witness ==
    /\ last.op = "filter_tickets"
    /\ last.exc = ""
    /\ last.exclude = {}
    /\ last.args = Bundle(Nil, Nil, Null, <<>>, <<<<"A">>, <<"C">>>>, <<>>)
    /\ \E i \in 1..Len(last.ret) :
          /\ heap.Ticket[last.ret[i]].diagnoses = <<<<"A">>, <<"B">>>>
          /\ last.ret[i] \notin
                Elements(filter_tickets(heap, last.tickets,
                    Bundle(Nil, Nil, Null, <<>>, <<>>, <<<<"A">>, <<"C">>>>), {}).ret)

\* every Ticket of the collection has a created timestamp
Dated(tickets) ==
    \A t \in Elements(ValuesOf(tickets)) : heap.Ticket[t].created # Nil

\* C11 (as claimed): with termstart and termend at midnight, the tickets kept
\* of a collection of dated tickets are those with termstart <= created and
\* created strictly before the start of the day after termend.
C11_TermWindowIsWholeDays ==
    \A tickets \in Collections, termstart \in {Apr3, Apr4}, termend \in {Apr3, Apr4} :
        Dated(tickets) =>
            LET r == filter_tickets(heap, tickets,
                                    Bundle(termstart, termend, Null, <<>>, <<>>, <<>>), {})
            IN  /\ r.exc = ""
                /\ r.ret = SelectSeq(ValuesOf(tickets),
                              LAMBDA t : /\ termstart <= heap.Ticket[t].created
                                         /\ heap.Ticket[t].created
                                               < termend + timedelta(1))

\* the bundle without the criterion
Without(args, criterion) == [k \in DOMAIN args \ {criterion} |-> args[k]]

\* what a call returned or raised, the bundle it leaves aside
Outcome(r) == [ret |-> r.ret, exc |-> r.exc]

\* C12 (as claimed): naming a criterion of the bundle in exclude gives what
\* the bundle without that criterion gives, for each of termstart, termend,
\* building, requestors, diagnoses and anddiagnoses.
C12_ExcludeRemovesTheCriterion ==
    \A tickets \in Collections, args \in Bundles :
        \A criterion \in DOMAIN args :
            Outcome(filter_tickets(heap, tickets, args, {criterion}))
                = Outcome(filter_tickets(heap, tickets, Without(args, criterion), {}))

\* the part of the bundle on the criteria of K
Only(args, K) == [k \in DOMAIN args \cap K |-> args[k]]

\* C13 (as claimed): for a bundle split in two bundles over disjoint
\* criteria, filtering by the whole bundle returns the list that filtering
\* by the first part and then by the second part returns.
C13_FilteringComposes ==
    \A tickets \in Collections, args \in Bundles :
        \A K \in SUBSET DOMAIN args :
            LET whole == filter_tickets(heap, tickets, args, {})
                first == filter_tickets(heap, tickets, Only(args, K), {})
                second == filter_tickets(heap, [list |-> first.ret],
                                         Only(args, DOMAIN args \ K), {})
            IN  /\ whole.exc = "" /\ first.exc = "" /\ second.exc = ""
                /\ whole.ret = second.ret

----------------------------------------------------------------------------
(* Claims about the counting queries *)

\* the bundle with a week count, left out when weeks is Nil
Weekly(args, weeks) ==
    IF weeks = Nil THEN args
    ELSE [k \in DOMAIN args \cup {"weeks"} |-> IF k = "weeks" THEN weeks ELSE args[k]]

\* the bundles per_week is asked with, over the entities of the Organization
WeekBundles ==
    {Weekly(Bundle(termstart, termend, building, requestors, mode[1], mode[2]), weeks) :
        termstart \in {Nil, Apr4}, termend \in {Nil, Apr3, Apr10},
        building \in {Null} \cup 1..Len(heap.Building),
        requestors \in {<<>>} \cup {<<u>> : u \in 1..Len(heap.User)},
        mode \in {<<<<>>, <<>>>>, <<<<<<"A">>, <<"C">>>>, <<>>>>,
                  <<<<>>, <<<<"a", " ", "B">>>>>>},
        weeks \in {Nil, 1, 3}}

\* the Organization holds a ticket
Populated == org.tickets # <<>>

\* C14 (as claimed): on a populated Organization per_week returns, for every
\* bundle, a dict whose keys are exactly the week starts from first_week to
\* last_week at 7-day spacing, each once and in order: as many as weeks when
\* weeks is given, 11 when neither weeks nor termend is given, and every
\* count is at least 0
C14_EveryWeekHasAnEntry ==
    Populated =>
        \A args \in WeekBundles :
            LET r == per_week(org, heap, args) IN
            /\ r.exc = ""
            /\ DictKeys(r.ret) =
                   [i \in 1..Len(r.ret) |-> r.first_week + (i - 1) * timedelta(7)]
            /\ r.first_week + Len(r.ret) * timedelta(7) > r.last_week
            /\ r.first_week + (Len(r.ret) - 1) * timedelta(7) <= r.last_week
            /\ "weeks" \in DOMAIN args => Len(r.ret) = args["weeks"]
            /\ DOMAIN args \cap {"weeks", "termend"} = {} => Len(r.ret) = DEFAULT_WEEKS
            /\ \A i \in 1..Len(r.ret) : r.ret[i].val >= 0

\* the Monday 00:00 that begins the calendar week of d
WeekStart(d) == midnight(d) - weekday(d) * timedelta(1)

\* the earliest created timestamp over the tickets of the tickets table
Earliest ==
    CHOOSE c \in {heap.Ticket[t].created : t \in Elements(DictValues(org.tickets))} \ {Nil} :
        \A t \in Elements(DictValues(org.tickets)) :
            heap.Ticket[t].created # Nil => c <= heap.Ticket[t].created

\* C15 (as claimed): on a populated Organization per_week returns for every
\* bundle with first_week the Monday of termstart when termstart is given and
\* the Monday of the earliest created of all tickets otherwise, and last_week
\* first_week + (weeks - 1) * 7 days when weeks is given, else the Monday of
\* termend when termend is given, else first_week + 10 * 7 days
C15_WindowResolution ==
    Populated =>
        \A args \in WeekBundles :
            LET r == per_week(org, heap, args) IN
            /\ r.exc = ""
            /\ r.first_week = IF "termstart" \in DOMAIN args THEN WeekStart(args["termstart"])
                              ELSE WeekStart(Earliest)
            /\ r.last_week =
                   IF "weeks" \in DOMAIN args
                     THEN r.first_week + (args["weeks"] - 1) * timedelta(7)
                   ELSE IF "termend" \in DOMAIN args THEN WeekStart(args["termend"])
                   ELSE r.first_week + 10 * timedelta(7)

\* the tickets of the tickets table that pass every criterion of the bundle
\* other than termstart and termend
Passing(args) ==
    {t \in Elements(DictValues(org.tickets)) : Satisfies(t, args, {"termstart", "termend"})}

\* the tickets of S whose created snaps to the Monday w
InWeek(S, w) ==
    {t \in S : heap.Ticket[t].created # Nil /\ WeekStart(heap.Ticket[t].created) = w}

\* C16 (as claimed): on a populated Organization per_week returns for every
\* bundle, and the count of each week w of its result is the number of
\* tickets of the tickets table that pass every criterion other than
\* termstart and termend and whose created snaps to the Monday w, whichever
\* day of that week they were created on
C16_WeekCountsTheTicketsOfTheWeek ==
    Populated =>
        \A args \in WeekBundles :
            LET r == per_week(org, heap, args) IN
            /\ r.exc = ""
            /\ \A i \in 1..Len(r.ret) :
                  r.ret[i].val = Cardinality(InWeek(Passing(args), r.ret[i].key))

\* the sum of a list of numbers
RECURSIVE Sum(_)
Sum(list) == IF list = <<>> THEN 0 ELSE Head(list) + Sum(Tail(list))

\* the rooms of a building
RoomsOf(b) == DictValues(heap.Building[b].rooms)

\* how many tickets of the list filter_tickets returns for the bundle
Matching(list, args, exclude) ==
    Len(filter_tickets(heap, [list |-> list], args, exclude).ret)

\* C17 (as claimed): per_building returns, for every bundle, a dict with one
\* entry for each registered building, whose count is the sum over the rooms
\* of the building of the number of tickets of the room that filter_tickets
\* returns for the bundle
C17_BuildingCountsSumTheRooms ==
    \A args \in Bundles :
        LET r == per_building(org, heap, args) IN
        /\ r.exc = ""
        /\ DictKeys(r.ret) = DictValues(org.buildings)
        /\ \A i \in 1..Len(r.ret) :
              r.ret[i].val =
                  Sum([j \in 1..Len(RoomsOf(r.ret[i].key)) |->
                          Matching(heap.Room[RoomsOf(r.ret[i].key)[j]].tickets, args, {})])

\* the keys of the dict are exactly the elements of S, each once
KeyedBy(dict, S) ==
    /\ Elements(DictKeys(dict)) = S
    /\ Len(dict) = Cardinality(S)

\* C18 (as claimed): per_room returns for every bundle; with a building in
\* the bundle its dict has one entry for each room of that building and no
\* other, and the count of each is the count per_room gives that room for the
\* bundle without the building; without a building its dict has one entry for
\* each room of every building
C18_RoomsOfTheBuilding ==
    \A args \in Bundles :
        LET r == per_room(org, heap, args)
            every == per_room(org, heap, Without(args, "building"))
        IN  /\ r.exc = ""
            /\ every.exc = ""
            /\ KeyedBy(every.ret, 1..Len(heap.Room))
            /\ "building" \in DOMAIN args =>
                  /\ KeyedBy(r.ret, {rm \in 1..Len(heap.Room) :
                                        heap.Room[rm].building = args["building"]})
                  /\ \A i \in 1..Len(r.ret) :
                        r.ret[i].val = DictGet(every.ret, r.ret[i].key, Nil)

\* C19 (as claimed): per_requestor returns, for every bundle, a dict with one
\* entry for each User of every email bucket, users that share an email
\* included, whose count is the number of tickets of the user that
\* filter_tickets returns for the bundle
C19_RequestorCounts ==
    \A args \in Bundles :
        LET r == per_requestor(org, heap, args) IN
        /\ r.exc = ""
        /\ DictKeys(r.ret) = Flatten(DictValues(org.users))
        /\ KeyedBy(r.ret, 1..Len(heap.User))
        /\ \A i \in 1..Len(r.ret) :
              r.ret[i].val = Matching(heap.User[r.ret[i].key].tickets, args, {})

----------------------------------------------------------------------------
(* Claims about get_monday *)

\* C20: for every timestamp d, get_monday(d) is a Monday at 00:00 with
\* get_monday(d) <= d < get_monday(d) + 7 days, its loop takes at most 6
\* one-day steps, get_monday of the result is the result, and a d that falls
\* on a Monday gives the midnight of its own date; so 2023-07-27 gives
\* 2023-07-24, 2023-06-26 gives itself and the Sunday 2023-07-23 gives
\* 2023-07-17
C20_GetMondayIsTheWeekStart ==
    /\ last.op = "get_monday" =>
          /\ weekday(last.ret) = 0
          /\ midnight(last.ret) = last.ret
          /\ last.ret <= last.date
          /\ last.date < last.ret + timedelta(7)
          /\ last.steps <= 6
          /\ get_monday(last.ret) = last.ret
          /\ weekday(last.date) = 0 => last.ret = midnight(last.date)
    /\ get_monday(datetime(2023, 7, 27, 0, 0)) = datetime(2023, 7, 24, 0, 0)
    /\ get_monday(datetime(2023, 6, 26, 0, 0)) = datetime(2023, 6, 26, 0, 0)
    /\ get_monday(datetime(2023, 7, 23, 0, 0)) = datetime(2023, 7, 17, 0, 0)

\* get_monday has stepped six days back from the last minute of a Sunday,
\* across the end of a month
C20_Witness ==
    /\ last.op = "get_monday"
    /\ last.steps = 6
    /\ last.date = datetime(2024, 3, 3, 23, 59)
    /\ last.ret = datetime(2024, 2, 26, 0, 0)

----------------------------------------------------------------------------
(* Claims about the schema *)

\* the column holds a value in the record
Holds(csv_ticket, column) == Truthy(Get(csv_ticket, column))

\* C21: the value get_attribute gives an attribute is the value of the first
\* of its column names, in the order of STANDARD_FIELDS, that holds a value
\* in the record: the preferred column wins whenever it holds a value, a
\* later column is used only when every column before it is left out or
\* blank, and the value is None when no column holds a value
C21_PreferredColumnFirst ==
    last.op = "get_attribute" =>
        LET columns == STANDARD_FIELDS(last.attribute)
            holding == {i \in 1..Len(columns) : Holds(last.csv_ticket, columns[i])}
        IN  /\ holding = {} => last.ret = None
            /\ \A i \in holding :
                  (\A j \in 1..(i - 1) : j \notin holding) =>
                      last.ret = last.csv_ticket[columns[i]]
            /\ Holds(last.csv_ticket, columns[1]) => last.ret = last.csv_ticket[columns[1]]

\* get_attribute("building") has given the value of "Location" for a record
\* in which "Class Support Building" holds a value as well
C21_Witness ==
    /\ last.op = "get_attribute"
    /\ last.attribute = "building"
    /\ Holds(last.csv_ticket, "Location")
    /\ Holds(last.csv_ticket, "Class Support Building")
    /\ last.ret = <<"L">>

\* the column is a column of the report the record comes from
Found(csv_ticket, column) == Get(csv_ticket, column) # None

\* C22 (as claimed): in the list get_fields_present returns, each attribute
\* of STANDARD_FIELDS appears at most once, in the order of STANDARD_FIELDS,
\* and appears iff one of its column names is found in the record; a legacy
\* name is reported only for a column that is found, is not the preferred
\* one, and whose preferred column is not found
C22_FieldsPresentOnce ==
    last.op = "get_fields_present" /\ last.exc = "" =>
        /\ \A i \in 1..Len(Attributes) :
              /\ Count(Attributes[i], last.ret.fields_present) <= 1
              /\ Count(Attributes[i], last.ret.fields_present) >= 1 <=>
                    \E column \in Elements(STANDARD_FIELDS(Attributes[i])) :
                        Found(last.csv_ticket, column)
        /\ last.ret.fields_present =
               SelectSeq(Attributes, LAMBDA a : a \in Elements(last.ret.fields_present))
        /\ \A pair \in Elements(last.ret.legacy_fields) :
              /\ Found(last.csv_ticket, pair[1])
              /\ pair[1] # pair[2]
              /\ ~Found(last.csv_ticket, pair[2])

\* the text parses under the i-th of TIME_FORMATS
Parses(text, i) == strptime(text, TIME_FORMATS[i]) # Throws

\* the value get_time_format examines: Created if it holds a value, else
\* Modified if it does, else None
Examined(csv_ticket) ==
    IF Holds(csv_ticket, "Created") THEN csv_ticket["Created"]
    ELSE IF Holds(csv_ticket, "Modified") THEN csv_ticket["Modified"]
    ELSE None

\* C23: get_time_format examines Created if it holds a value and Modified
\* otherwise; with neither it returns None and does not raise, with a value
\* that parses under some format it returns the first such format of
\* TIME_FORMATS, and with a value that parses under none it raises
\* BadReportError
C23_FirstFormatThatParses ==
    last.op = "get_time_format" =>
        LET text == Examined(last.csv_ticket) IN
        IF text = None THEN last.ret = None /\ last.exc = ""
        ELSE IF \E i \in 1..Len(TIME_FORMATS) : Parses(text, i)
        THEN /\ last.exc = ""
             /\ \E i \in 1..Len(TIME_FORMATS) :
                   /\ last.ret = TIME_FORMATS[i]
                   /\ Parses(text, i)
                   /\ \A j \in 1..(i - 1) : ~Parses(text, j)
        ELSE last.exc = "BadReportError"

\* get_time_format has returned "%m/%d/%Y %H:%M" for the Created of a record
\* whose Modified is written in another format
C23_Witness ==
    /\ last.op = "get_time_format"
    /\ Get(last.csv_ticket, "Created") = Slashed
    /\ Get(last.csv_ticket, "Modified") = Evening
    /\ last.exc = ""
    /\ last.ret = TIME_FORMATS[2]

\* the record passes the schema: it has the ID column, and the time value
\* examined, if any, parses under one of TIME_FORMATS
WellFormed(csv_ticket) ==
    /\ Found(csv_ticket, "ID")
    /\ \/ Examined(csv_ticket) = None
       \/ \E i \in 1..Len(TIME_FORMATS) : Parses(Examined(csv_ticket), i)

\* C24: Report(filename) is constructed iff the first record has the ID
\* column and its Created/Modified value, if any, parses under a supported
\* format, whatever other attribute is missing; when the construction is
\* rejected populate never runs, so the Organization stays empty, and an
\* Organization that holds anything was populated from a report whose first
\* record passes the schema
C24_SchemaErrorsComeFirst ==
    /\ \A csv_ticket \in LoadRows :
          Report(csv_ticket, None).state = "constructed" <=> WellFormed(csv_ticket)
    /\ report.state \in {"SystemExit", "BadReportError"} =>
          org = EmptyOrg /\ heap = EmptyHeap /\ file = <<>>
    /\ org # EmptyOrg \/ heap # EmptyHeap \/ file # <<>> =>
          report.state \in {"constructed", "raised"} /\ WellFormed(report.sample)

\* the construction of the Report has ended at a first record without the ID
\* column, and nothing has been added
C24_Witness ==
    /\ last.op = "Report"
    /\ report.state = "SystemExit"
    /\ org = EmptyOrg
    /\ heap = EmptyHeap

----------------------------------------------------------------------------
(* Claims about populate *)

\* populate of a fresh Organization from a file of the two records, given
\* what the first turn of its loop has left
SecondOf(first, second_row) ==
    [first |-> first, second |-> added(dict_to_ticket(first.org, first.heap, report, second_row))]

BothOf(first_row, second_row) ==
    SecondOf(added(dict_to_ticket(EmptyOrg, EmptyHeap, report, first_row)), second_row)

\* the two records of the file resolve to the same User when read in this order
Shares(both) ==
    /\ both.first.exc = ""
    /\ both.second.exc = ""
    /\ both.second.heap.Ticket[both.first.ret].requestor
          = both.second.heap.Ticket[both.second.ret].requestor

\* C25 (as claimed): populate never raises on the requestor of a record,
\* whatever mix of blank and non-blank email, name and phone the records
\* hold, and two records resolve to the same User in one order iff they do
\* in the other
C25_OneRequestorInAnyOrder ==
    /\ last.op = "populate" => last.exc = ""
    /\ Len(file) = 2 =>
          (Shares(BothOf(file[1].row, file[2].row))
              <=> Shares(BothOf(file[2].row, file[1].row)))

----------------------------------------------------------------------------
(* Claims about the queries as a whole *)

\* what the query returns for the bundle on the Organization
Answer(query, args) ==
    CASE query = "show_tickets" -> filter_tickets(heap, [dict |-> org.tickets], args, {})
      [] query = "per_week" -> per_week(org, heap, args)
      [] query = "per_building" -> per_building(org, heap, args)
      [] query = "per_room" -> per_room(org, heap, args)
      [] query = "per_requestor" -> per_requestor(org, heap, args)

QueryTypes == {"show_tickets", "per_week", "per_building", "per_room", "per_requestor"}

\* C26 (as claimed): filter_tickets, per_week, per_building, per_room and
\* per_requestor leave the bundle they are given as it was, the contents of
\* its diagnoses or anddiagnoses list and its termend included, and a second
\* run with the bundle the first run has left returns what the first run
\* returned
C26_QueriesAreReadOnly ==
    /\ last.op \in {"per_week", "per_building", "per_room", "per_requestor"} =>
          last.left = last.args
    /\ \A args \in Bundles, query \in QueryTypes :
          /\ Answer(query, args).args = args
          /\ Outcome(Answer(query, Answer(query, args).args)) = Outcome(Answer(query, args))

\* the sum of the counts of a dict
Total(counts) == Sum(DictValues(counts))

\* C27 (as claimed): for every bundle without a building the four views
\* return and agree: the count per_building gives a building is the sum of
\* the counts per_room gives its rooms, and the counts of per_building, of
\* per_room and of per_requestor each add up to the number of tickets
\* filter_tickets returns from the tickets table
C27_ViewsAgree ==
    \A args \in {a \in Bundles : "building" \notin DOMAIN a} :
        LET buildings == Answer("per_building", args)
            rooms == Answer("per_room", args)
            requestors == Answer("per_requestor", args)
            shown == Answer("show_tickets", args)
        IN  /\ buildings.exc = "" /\ rooms.exc = "" /\ requestors.exc = "" /\ shown.exc = ""
            /\ \A i \in 1..Len(buildings.ret) :
                  buildings.ret[i].val =
                      Sum([j \in 1..Len(RoomsOf(buildings.ret[i].key)) |->
                              DictGet(rooms.ret, RoomsOf(buildings.ret[i].key)[j], 0)])
            /\ Total(buildings.ret) = Len(shown.ret)
            /\ Total(rooms.ret) = Len(shown.ret)
            /\ Total(requestors.ret) = Len(shown.ret)

\* C28 (as claimed): on an Organization that populate has filled without
\* raising, tickets without a created timestamp included, every query
\* returns for every bundle, so none raises and per_week never counts into a
\* week that its result lacks
C28_QueriesReturn ==
    report.state = "constructed" /\ Populated =>
        \A args \in Bundles \cup WeekBundles, query \in QueryTypes :
            Answer(query, args).exc = ""

\* C29 (as claimed): when populate has raised on a record, that record is
\* the last one read and the Organization holds no ticket and no entity
C29_AllOrNothing ==
    report.state = "raised" =>
        /\ last.op = "populate"
        /\ last.exc # ""
        /\ org = EmptyOrg
        /\ heap = EmptyHeap

\* the bundles that carry a building
Scoped == {a \in Bundles : "building" \in DOMAIN a}

\* C30 (as claimed): for a bundle that carries a building, per_building
\* returns, and gives every building the count it gives it for the bundle
\* without the building
C30_PerBuildingSuppressesBuilding ==
    \A args \in Scoped :
        /\ per_building(org, heap, args).exc = ""
        /\ per_building(org, heap, Without(args, "building")).exc = ""
        /\ per_building(org, heap, args).ret
              = per_building(org, heap, Without(args, "building")).ret

\* what filter_tickets returns for each room of the building, in the order
\* of its rooms
OfRooms(b, args) ==
    [j \in 1..Len(RoomsOf(b)) |->
        filter_tickets(heap, [list |-> heap.Room[RoomsOf(b)[j]].tickets], args, {})]

\* C30 (amended): per_building applies the building of the bundle as it
\* applies every other criterion.  For a bundle that carries building B it
\* raises what filter_tickets raises on the tickets of a room of B for the
\* bundle without the building, if on any, and otherwise returns a dict in
\* which B has the count it has for the bundle without the building and
\* every other building is present with count 0
C30_PerBuildingAppliesBuilding ==
    \A args \in Scoped :
        LET r == per_building(org, heap, args)
            rooms == OfRooms(args["building"], Without(args, "building"))
        IN  IF \E j \in 1..Len(rooms) : rooms[j].exc # ""
            THEN r.exc = "TypeError"
            ELSE /\ r.exc = ""
                 /\ DictKeys(r.ret) = DictValues(org.buildings)
                 /\ \A i \in 1..Len(r.ret) :
                       r.ret[i].val =
                           IF r.ret[i].key = args["building"]
                           THEN Sum([j \in 1..Len(rooms) |-> Len(rooms[j].ret)])
                           ELSE 0

\* per_building has been run with a bundle that carries a building, and has
\* given 0 to another building, one that has a ticket
C30_Witness ==
    /\ last.op = "per_building"
    /\ last.exc = ""
    /\ "building" \in DOMAIN last.args
    /\ \E i \in 1..Len(last.ret) :
          /\ last.ret[i].key = last.args["building"]
          /\ last.ret[i].val > 0
    /\ \E i \in 1..Len(last.ret) :
          /\ last.ret[i].key # last.args["building"]
          /\ last.ret[i].val = 0
          /\ \E j \in 1..Len(RoomsOf(last.ret[i].key)) :
                heap.Room[RoomsOf(last.ret[i].key)[j]].tickets # <<>>
====
